---- MODULE Spec2Model ----
(***************************************************************************)
(* Megaplace backend: the indexer that ingests the PixelPlaced log of the  *)
(* ledger into a pixel cache, persists it with a checkpoint, and fans each *)
(* committed pixel out to the SSE subscribers of /api/pixels/stream.       *)
(*                                                                         *)
(* backend/src/app.ts and backend/src/index.ts are modelled from their     *)
(* source.  backend/src/eventListener.ts (class EventListener) is not part *)
(* of the sources at hand: its operations are modelled from the written    *)
(* specification (sections 3 to 5) and from the backend READMEs.           *)
(***************************************************************************)
EXTENDS Integers, Sequences, FiniteSets, TLC

\* ------------------------------------------------------------- bounds
\* Highest log position the ledger reaches in a run.
MaxHead == 3
\* Number of distinct pixel keys (x + y * RES) that occur in the log.
NumKeys == 2
\* Colours range over 0..MaxColor; 0 is the "cleared" colour.
MaxColor == 1
\* Positions per backfill chunk (1,000 in the program).
ChunkSize == 2
\* Chunks in flight at once (5 in the program).
Concurrency == 2
\* Retries of a failed chunk before it is skipped (5 in the program).
MaxRetries == 1
\* Process starts in a run (the first start and the restarts).
MaxBoots == 2
\* Stream connections opened in a run.
MaxConns == 2
\* Longest log behind the Cache that region requests are answered from.
MaxRegionLog == 2
\* Addresses that call the ledger.
NumUsers == 2
\* Snapshot writes that fail between two starts.
MaxSaveFails == 1
\* Largest number of heartbeats written to one stream connection.
MaxBeats == 2
\* Largest number of pollForNewEvents calls of the frontend poller.
MaxPolls == 3
\* Largest number of pixels placed by the calls of a ledger run.
MaxPlaced == 2

\* The deployment origin (DEPLOYMENT_BLOCK): log positions are counted from it.
Origin == 0

Keys == 1..NumKeys
Conns == 1..MaxConns

VARIABLES
    log,          \* the ledger's event log: log[p] = [key, color] at position p
    up,           \* the backend process is running
    boots,        \* number of process starts so far
    initDone,     \* steps of initialize() completed: "load", "sync", "watch"
    cache,        \* Record Cache: key -> [key, color, pos], domain = written keys
    checkpoint,   \* lastProcessedBlock
    disk,         \* the snapshot artifact (data/pixels.json), or NoSnapshot
    syncing,      \* Backfill in progress (isSyncing)
    bfStart,      \* Backfill range is bfStart+1 .. bfHead
    bfHead,
    chunks,       \* chunk index -> [st, tries]
    watching,     \* Live Tail active (isWatching)
    pollRange,    \* range query of the Live Tail poll in flight, or NoPoll
    callbacks,    \* connections whose onPixel callback is registered
    timers,       \* connections whose heartbeat interval is set
    conn,         \* connection -> "new" | "open" | "closed"
    stream,       \* open connection -> sequence of events written with res.write
    slow,         \* connections whose outbound channel is full
    push,         \* Live Tail's push subscription: [st, next], or NoPush
    http,         \* the last region request and its response, or NoRequest
    commits,      \* history: records of the puts that changed the Cache, in order
    subAt,        \* history: Len(commits) when the connection subscribed
    applied,      \* history: positions whose entry is reflected by or reached put
    loadedCkpt,   \* history: checkpoint loaded at the last start
    requeried,    \* history: a position at or before loadedCkpt was queried
    dirty,        \* a snapshot is scheduled: the debounce timer is armed
    debounce,     \* ticks since the last apply and since the first unsaved apply
    saveFails,    \* history: Len(commits) at each failed snapshot write since the start
    now,          \* ledger: block.timestamp
    canvas,       \* ledger: pixel index -> [color, placedBy, timestamp]
    lastPlaced,   \* ledger: user -> time of the last placement
    premiumAccess,\* ledger: user -> expiry of the premium access
    tx,           \* ledger: the last call and its outcome, or NoCall
    lastProcessedBlockRef, \* poller: last block processed, 0 before the first poll
    isActive,     \* poller: the effect has not been cleaned up
    intervalId,   \* poller: the polling interval is set
    polls,        \* poller: every pollForNewEvents call so far and where it stands
    delivered,    \* history: the log positions passed to onPixelPlaced, in order
    pixelDataRef, \* map: pixelKey -> colour
    markersRef,   \* map: pixelKey -> fill colour of the marker on the map
    placedPixelCount, \* map: the count shown
    mapReadyRef,  \* map: initializeMap has run
    load,         \* map: where loadFromBackend stands
    handled       \* history: [pos, load] of each handlePixelPlaced call, in order

vars == <<log, up, boots, initDone, cache, checkpoint, disk, syncing, bfStart,
          bfHead, chunks, watching, pollRange, callbacks, timers,
          conn, stream, slow, push, http, commits, subAt, applied, loadedCkpt,
          requeried, dirty, saveFails, debounce, now, canvas, lastPlaced,
          premiumAccess, tx, lastProcessedBlockRef, isActive, intervalId, polls,
          delivered, pixelDataRef, markersRef, placedPixelCount, mapReadyRef,
          load, handled>>

ingestVars == <<cache, checkpoint, syncing, bfStart, bfHead, chunks,
                watching, pollRange, applied, loadedCkpt, requeried>>
subVars == <<callbacks, timers, conn, slow, subAt>>
ledgerVars == <<now, canvas, lastPlaced, premiumAccess, tx>>
pollerVars == <<lastProcessedBlockRef, isActive, intervalId, polls, delivered>>
mapVars == <<pixelDataRef, markersRef, placedPixelCount, mapReadyRef, load, handled>>
frontendVars == <<pollerVars, mapVars>>

NoSnapshot == [exists |-> FALSE]
NoPoll == [active |-> FALSE]
NoPush == [st |-> "off", next |-> 0]
NoRequest == [req |-> <<>>]
EmptyCache == [k \in {} |-> 0]

Max2(a, b) == IF a >= b THEN a ELSE b
Min2(a, b) == IF a <= b THEN a ELSE b

RECURSIVE SetMax(_)
SetMax(S) == IF S = {} THEN 0
             ELSE LET x == CHOOSE y \in S : TRUE
                  IN Max2(x, SetMax(S \ {x}))

CurrentHead == Len(log)

\* ------------------------------------------------- normalization, put
\* The record of the log entry at position p.
RecordOf(p) == [key |-> log[p].key, color |-> log[p].color, pos |-> p]

\* Mutant: one high-water mark for the whole Cache instead of one per key.
PutAppliesGlobal(c, r) ==
    \A k \in DOMAIN c : r.pos > c[k].pos

\* put applies a record only if its position is newer than the stored one.
PutApplies(c, r) == r.key \notin DOMAIN c \/ r.pos > c[r.key].pos

\* Mutant: the record is stored without comparing positions.
PutAlways(c, r) ==
    [k \in DOMAIN c \cup {r.key} |-> IF k = r.key THEN r ELSE c[k]]

Put(c, r) ==
    IF PutApplies(c, r)
    THEN [k \in DOMAIN c \cup {r.key} |-> IF k = r.key THEN r ELSE c[k]]
    ELSE c

\* Mutant: publish is called for every entry, applied or not.
PublishAlways(c, r) == TRUE

\* publish is called for a put that was applied.
ShouldPublish(c, r) == PutApplies(c, r)

\* A field that the decoded entry does not have.
Missing == -1

\* Normalization accepts an entry that has its coordinate and its colour.
WellFormed(e) == e.key # Missing /\ e.color # Missing

RECURSIVE ApplyRange(_, _, _)

\* Mutant: a malformed entry ends the batch, the entries after it are not
\* applied.
AbortBatch(c, lo, hi) == [cache |-> c, pub |-> <<>>, com |-> <<>>]

\* A malformed entry is logged and dropped: the batch goes on with the
\* entry after it.
SkipMalformed(c, lo, hi) == ApplyRange(c, lo + 1, hi)

\* Applying the entries at positions lo..hi in log order: the resulting
\* cache, the records handed to publish, and the records that changed it.
ApplyRange(c, lo, hi) ==
    IF lo > hi THEN [cache |-> c, pub |-> <<>>, com |-> <<>>]
    ELSE IF ~WellFormed(log[lo]) THEN SkipMalformed(c, lo, hi)
    ELSE LET r == RecordOf(lo)
             c1 == Put(c, r)
             rest == ApplyRange(c1, lo + 1, hi)
         IN [cache |-> rest.cache,
             pub |-> (IF ShouldPublish(c, r) THEN <<r>> ELSE <<>>) \o rest.pub,
             com |-> (IF c1 # c THEN <<r>> ELSE <<>>) \o rest.com]

\* ------------------------------------------------------ SSE fan-out
\* PixelData as sent to subscribers: it has no log position.
PixelData(r) == [x |-> r.key, color |-> r.color]

ConnectedEvent == [type |-> "connected"]
PixelEvent(r) == [type |-> "pixel", data |-> PixelData(r)]

\* Mutant: a new client is first sent the pixels already in the Cache.
ConnectWritesReplay(c) ==
    LET RECURSIVE Dump(_)
        Dump(ks) == IF ks = {} THEN <<>>
                    ELSE LET k == CHOOSE x \in ks : TRUE
                         IN <<PixelEvent(cache[k])>> \o Dump(ks \ {k})
    IN <<ConnectedEvent>> \o Dump(DOMAIN cache)

\* What the stream handler writes when a client connects.
ConnectWrites(c) == <<ConnectedEvent>>

\* Mutant: a cleared pixel (colour 0) is not written to the stream.
OnPixelSkipCleared(s, r) ==
    IF r.color = 0 THEN s ELSE Append(s, PixelEvent(r))

\* The callback registered with onPixel: one res.write per pixel.
OnPixelCallback(s, r) == Append(s, PixelEvent(r))

RECURSIVE WriteAll(_, _)
WriteAll(s, rs) ==
    IF rs = <<>> THEN s ELSE WriteAll(OnPixelCallback(s, Head(rs)), Tail(rs))

\* publish: every registered callback is called with every record.
Publish(st, rs) ==
    [c \in Conns |-> IF c \in callbacks THEN WriteAll(st[c], rs) ELSE st[c]]

\* ------------------------------------------------ debounce timers
\* The quiet period after the last apply and the staleness ceiling after
\* the first unsaved apply, in ticks of the scheduler's clock.
QuietTicks == 2
MaxStaleTicks == 3

\* No snapshot is scheduled.
Idle == [quiet |-> 0, stale |-> 0]

\* An apply schedules the snapshot: the quiet period starts again, the
\* staleness runs on from the first unsaved apply.
Rearm(d, scheduled) ==
    [quiet |-> 0, stale |-> IF scheduled THEN d.stale ELSE 0]

\* Mutant: the snapshot waits for the quiet period only.
DueWhenQuiet(d) == d.quiet >= QuietTicks

\* The scheduled snapshot is due: the quiet period has passed or the
\* staleness ceiling is reached, whichever comes first.
Due(d) == d.quiet >= QuietTicks \/ d.stale >= MaxStaleTicks

\* The canvas resolution: coordinates are 0 .. RES - 1.
RES == 1048576

\* The canonical key of a coordinate (computed for the rows near the top
\* of the canvas only, where it stays within the checker's integers).
Key(x, y) == x + y * RES

\* Addresses that call the ledger; address 0 is the zero address.
Users == 1..NumUsers

\* block.timestamp when the run starts.
StartTime == 1000

\* The pixel of an index that was never written: the zero struct.
NoPixel == [color |-> 0, placedBy |-> 0, timestamp |-> 0]

\* The indexes of the canvas that the calls of a run touch.
LedgerXs == {0, 1}
LedgerYs == {0, 1}
LedgerCells == {Key(x, y) : x \in LedgerXs, y \in LedgerYs}
EmptyCanvas == [i \in LedgerCells |-> NoPixel]

NoCall == [fn |-> "none"]

\* ------------------------------------------------- frontend at mount
\* A pollForNewEvents call that awaits getBlockNumber.
NewPoll == [pc |-> "getBlockNumber"]

EmptyMap == [k \in {} |-> 0]

\* The page after its effects have run: the first poll and the backend
\* load have been started and await their first response, the polling
\* interval is set, and the map is not initialised.
Mounted ==
    /\ lastProcessedBlockRef = 0
    /\ isActive = TRUE
    /\ intervalId = TRUE
    /\ polls = <<NewPoll>>
    /\ delivered = <<>>
    /\ pixelDataRef = EmptyMap
    /\ markersRef = EmptyMap
    /\ placedPixelCount = 0
    /\ mapReadyRef = FALSE
    /\ load = "health"
    /\ handled = <<>>

\* ------------------------------------------------------------ state
Init ==
    /\ log = <<>>
    /\ up = FALSE
    /\ boots = 0
    /\ initDone = {}
    /\ cache = EmptyCache
    /\ checkpoint = Origin
    /\ disk = NoSnapshot
    /\ syncing = FALSE
    /\ bfStart = Origin
    /\ bfHead = Origin
    /\ chunks = <<>>
    /\ watching = FALSE
    /\ pollRange = NoPoll
    /\ callbacks = {}
    /\ timers = {}
    /\ conn = [c \in Conns |-> "new"]
    /\ stream = [c \in Conns |-> <<>>]
    /\ slow = {}
    /\ push = NoPush
    /\ http = NoRequest
    /\ commits = <<>>
    /\ subAt = [c \in Conns |-> 0]
    /\ applied = {}
    /\ loadedCkpt = Origin
    /\ requeried = FALSE
    /\ dirty = FALSE
    /\ debounce = Idle
    /\ saveFails = <<>>
    /\ now = StartTime
    /\ canvas = EmptyCanvas
    /\ lastPlaced = [u \in Users |-> 0]
    /\ premiumAccess = [u \in Users |-> 0]
    /\ tx = NoCall
    /\ Mounted

\* ----------------------------------------------------------- ledger
\* The colour placed at position p (a payload: no operation branches on it).
ColorAt(p) == p % (MaxColor + 1)

\* The ledger accepts a placement and appends its PixelPlaced entry.
LedgerAppend ==
    /\ Len(log) < MaxHead
    /\ \E k \in Keys :
           log' = Append(log, [key |-> k, color |-> ColorAt(Len(log) + 1)])
    /\ UNCHANGED <<http, up, boots, initDone, disk, stream, commits, push>>
    /\ UNCHANGED ingestVars
    /\ UNCHANGED subVars
    /\ UNCHANGED <<dirty, saveFails, debounce>>
    /\ UNCHANGED ledgerVars
    /\ UNCHANGED frontendVars

\* Entries that the indexer's client cannot decode in full: one without
\* arguments and one without its colour.
MalformedEntries == {[key |-> Missing, color |-> Missing], [key |-> 1, color |-> Missing]}

\* The log grows by an entry that reaches the indexer malformed.
LedgerAppendMalformed ==
    /\ Len(log) < MaxHead
    /\ \E e \in MalformedEntries : log' = Append(log, e)
    /\ UNCHANGED <<http, up, boots, initDone, disk, stream, commits, push>>
    /\ UNCHANGED ingestVars
    /\ UNCHANGED subVars
    /\ UNCHANGED <<dirty, saveFails, debounce>>
    /\ UNCHANGED ledgerVars
    /\ UNCHANGED frontendVars

\* ---------------------------------------------------------- startup
\* Mutant: every start scans from the deployment origin.
BackfillFromOrigin(ckpt) == Origin

\* Where Backfill starts: the loaded checkpoint (exclusive).
BackfillStart(ckpt) == ckpt

NumChunks(from, to) == (to - from + ChunkSize - 1) \div ChunkSize
ChunkLo(i) == bfStart + (i - 1) * ChunkSize + 1
ChunkHi(i) == Min2(bfStart + i * ChunkSize, bfHead)

\* The steps of initialize(), in the order in which it runs them.
InitializeSteps == {"load", "sync", "watch"}

\* Mutant: with no snapshot the checkpoint starts at the current head.
LoadedCheckpointHead == IF disk.exists THEN disk.checkpoint ELSE CurrentHead

\* What loading the storage yields: the snapshot, or an empty Cache and the
\* deployment origin.
LoadedCache == IF disk.exists THEN disk.records ELSE EmptyCache
LoadedCheckpoint == IF disk.exists THEN disk.checkpoint ELSE Origin

\* The process start as one step: main() listens and initialize() loads the
\* storage, starts the historical sync and starts watching.
Start ==
    /\ ~up
    /\ boots < MaxBoots
    /\ up' = TRUE
    /\ boots' = boots + 1
    /\ initDone' = InitializeSteps
    /\ cache' = LoadedCache
    /\ checkpoint' = LoadedCheckpoint
    /\ loadedCkpt' = checkpoint'
    /\ applied' = {cache'[k].pos : k \in DOMAIN cache'}
    /\ requeried' = FALSE
    /\ syncing' = TRUE
    /\ bfStart' = BackfillStart(checkpoint')
    /\ bfHead' = CurrentHead
    /\ chunks' = [i \in 1..NumChunks(bfStart', bfHead') |->
                      [st |-> "pending", tries |-> 0]]
    /\ watching' = TRUE
    /\ UNCHANGED <<log, http, push, disk, pollRange, stream, commits>>
    /\ UNCHANGED subVars
    /\ UNCHANGED <<dirty, saveFails, debounce>>
    /\ UNCHANGED ledgerVars
    /\ UNCHANGED frontendVars

\* The same start step by step.  main(): the API server listens and
\* initialize() is called without being awaited.
Listen ==
    /\ ~up
    /\ boots < MaxBoots
    /\ up' = TRUE
    /\ boots' = boots + 1
    /\ UNCHANGED <<log, http, push, initDone, disk, stream, commits>>
    /\ UNCHANGED ingestVars
    /\ UNCHANGED subVars
    /\ UNCHANGED <<dirty, saveFails, debounce>>
    /\ UNCHANGED ledgerVars
    /\ UNCHANGED frontendVars

\* initialize(), first step: the storage is loaded.
LoadStorage ==
    /\ up /\ "load" \notin initDone
    /\ initDone' = initDone \cup {"load"}
    /\ cache' = LoadedCache
    /\ checkpoint' = LoadedCheckpoint
    /\ loadedCkpt' = checkpoint'
    /\ applied' = {cache'[k].pos : k \in DOMAIN cache'}
    /\ UNCHANGED <<log, http, push, up, boots, disk, syncing, bfStart, bfHead,
                   chunks, watching, pollRange, stream, commits, requeried>>
    /\ UNCHANGED subVars
    /\ UNCHANGED <<dirty, saveFails, debounce>>
    /\ UNCHANGED ledgerVars
    /\ UNCHANGED frontendVars

\* Mutant: the load is not awaited, the sync may start before it is done.
CanSyncUnloaded(done) == TRUE

\* The historical sync starts once the storage has been loaded.
CanSync(done) == "load" \in done

\* initialize(), second step: the historical sync starts from the checkpoint.
SyncStart ==
    /\ up /\ "sync" \notin initDone
    /\ CanSync(initDone)
    /\ initDone' = initDone \cup {"sync"}
    /\ syncing' = TRUE
    /\ bfStart' = BackfillStart(checkpoint)
    /\ bfHead' = CurrentHead
    /\ chunks' = [i \in 1..NumChunks(bfStart', bfHead') |->
                      [st |-> "pending", tries |-> 0]]
    /\ UNCHANGED <<log, http, push, up, boots, cache, checkpoint, disk, watching,
                   pollRange, stream, commits, applied, loadedCkpt, requeried>>
    /\ UNCHANGED subVars
    /\ UNCHANGED <<dirty, saveFails, debounce>>
    /\ UNCHANGED ledgerVars
    /\ UNCHANGED frontendVars

\* initialize(), third step: Live Tail starts.
WatchStart ==
    /\ up /\ "watch" \notin initDone
    /\ "sync" \in initDone
    /\ initDone' = initDone \cup {"watch"}
    /\ watching' = TRUE
    /\ UNCHANGED <<log, http, push, up, boots, cache, checkpoint, disk, syncing,
                   bfStart, bfHead, chunks, pollRange, stream, commits,
                   applied, loadedCkpt, requeried>>
    /\ UNCHANGED subVars
    /\ UNCHANGED <<dirty, saveFails, debounce>>
    /\ UNCHANGED ledgerVars
    /\ UNCHANGED frontendVars

\* --------------------------------------------------------- Backfill
Pending(i) == chunks[i].st = "pending"

\* A pending chunk is in flight when fewer than Concurrency pending
\* chunks precede it.
InFlight(i) ==
    /\ i \in DOMAIN chunks
    /\ Pending(i)
    /\ Cardinality({j \in 1..(i - 1) : Pending(j)}) < Concurrency

\* Mutant: the checkpoint is left where it was.
AdvanceNever(cur, to) == cur

\* The checkpoint only moves forward.
AdvanceCheckpoint(cur, to) == Max2(cur, to)

\* Mutant: a failed chunk is always retried; its attempt count starts over
\* when it reaches the cap.
RetryForever(ch) ==
    [st |-> "pending", tries |-> (ch.tries + 1) % (MaxRetries + 1)]

\* What happens to a chunk whose range query failed after `tries` retries.
AfterFailure(ch) ==
    IF ch.tries < MaxRetries
    THEN [st |-> "pending", tries |-> ch.tries + 1]
    ELSE [st |-> "skipped", tries |-> ch.tries]

\* The range query of chunk i returned: its entries are normalized and put.
ChunkOk(i) ==
    /\ up /\ syncing /\ InFlight(i)
    /\ LET res == ApplyRange(cache, ChunkLo(i), ChunkHi(i))
       IN /\ cache' = res.cache
          /\ stream' = Publish(stream, res.pub)
          /\ commits' = commits \o res.com
    /\ chunks' = [chunks EXCEPT ![i].st = "done"]
    /\ applied' = applied \cup (ChunkLo(i)..ChunkHi(i))
    /\ requeried' = (requeried \/ ChunkLo(i) <= loadedCkpt)
    /\ UNCHANGED <<log, http, push, initDone, up, boots, checkpoint, disk, syncing, bfStart, bfHead,
                   watching, pollRange, loadedCkpt>>
    /\ UNCHANGED subVars
    /\ dirty' = (dirty \/ cache' # cache)
    /\ debounce' = (IF cache' # cache THEN Rearm(debounce, dirty) ELSE debounce)
    /\ UNCHANGED saveFails
    /\ UNCHANGED ledgerVars
    /\ UNCHANGED frontendVars

\* The range query of chunk i failed (rate limit, transient RPC error).
ChunkFail(i) ==
    /\ up /\ syncing /\ InFlight(i)
    /\ chunks' = [chunks EXCEPT ![i] = AfterFailure(chunks[i])]
    /\ requeried' = (requeried \/ ChunkLo(i) <= loadedCkpt)
    /\ UNCHANGED <<log, http, push, initDone, up, boots, cache, checkpoint, disk, syncing,
                   bfStart, bfHead, watching, pollRange, stream,
                   commits, applied, loadedCkpt>>
    /\ UNCHANGED subVars
    /\ UNCHANGED <<dirty, saveFails, debounce>>
    /\ UNCHANGED ledgerVars
    /\ UNCHANGED frontendVars

\* Every chunk is resolved: the checkpoint advances to head and a snapshot
\* is requested.
BackfillFinish ==
    /\ up /\ syncing
    /\ \A i \in DOMAIN chunks : ~Pending(i)
    /\ checkpoint' = AdvanceCheckpoint(checkpoint, bfHead)
    /\ syncing' = FALSE
    /\ UNCHANGED <<log, http, push, initDone, up, boots, cache, disk, bfStart, bfHead, chunks,
                   watching, pollRange, stream, commits, applied,
                   loadedCkpt, requeried>>
    /\ UNCHANGED subVars
    /\ dirty' = TRUE
    /\ debounce' = Rearm(debounce, dirty)
    /\ UNCHANGED saveFails
    /\ UNCHANGED ledgerVars
    /\ UNCHANGED frontendVars

\* -------------------------------------------------------- Live Tail
\* A poll tick issues the range query [checkpoint+1, currentHead].
PollIssue ==
    /\ up /\ watching /\ ~pollRange.active
    /\ checkpoint < CurrentHead
    /\ pollRange' = [active |-> TRUE, from |-> checkpoint + 1, to |-> CurrentHead]
    /\ requeried' = (requeried \/ checkpoint + 1 <= loadedCkpt)
    /\ UNCHANGED <<log, http, push, initDone, up, boots, cache, checkpoint, disk, syncing,
                   bfStart, bfHead, chunks, watching, stream,
                   commits, applied, loadedCkpt>>
    /\ UNCHANGED subVars
    /\ UNCHANGED <<dirty, saveFails, debounce>>
    /\ UNCHANGED ledgerVars
    /\ UNCHANGED frontendVars

\* The poll's entries arrive: they are applied as a batch, the checkpoint
\* advances to the highest position seen and a snapshot is scheduled.
PollOk ==
    /\ up /\ watching /\ pollRange.active
    /\ LET res == ApplyRange(cache, pollRange.from, pollRange.to)
       IN /\ cache' = res.cache
          /\ stream' = Publish(stream, res.pub)
          /\ commits' = commits \o res.com
    /\ checkpoint' = AdvanceCheckpoint(checkpoint, pollRange.to)
    /\ applied' = applied \cup (pollRange.from..pollRange.to)
    /\ pollRange' = NoPoll
    /\ UNCHANGED <<log, http, push, initDone, up, boots, disk, syncing, bfStart, bfHead, chunks,
                   watching, loadedCkpt, requeried>>
    /\ UNCHANGED subVars
    /\ dirty' = TRUE
    /\ debounce' = Rearm(debounce, dirty)
    /\ UNCHANGED saveFails
    /\ UNCHANGED ledgerVars
    /\ UNCHANGED frontendVars

\* The poll's range query failed: the next tick asks again.
PollFail ==
    /\ up /\ watching /\ pollRange.active
    /\ pollRange' = NoPoll
    /\ UNCHANGED <<log, http, push, initDone, up, boots, cache, checkpoint, disk, syncing,
                   bfStart, bfHead, chunks, watching, stream,
                   commits, applied, loadedCkpt, requeried>>
    /\ UNCHANGED subVars
    /\ UNCHANGED <<dirty, saveFails, debounce>>
    /\ UNCHANGED ledgerVars
    /\ UNCHANGED frontendVars

\* Mutant: a subscription delivers only what is appended after it is made.
PushFromHead(ckpt) == CurrentHead + 1

\* watch(fromPosition): the subscription starts right after the checkpoint.
PushFrom(ckpt) == ckpt + 1

\* The push subscription is made, at the start of Live Tail or as the
\* reconnect after a transport failure.
PushSubscribe ==
    /\ up /\ watching /\ push.st # "on"
    /\ push' = [st |-> "on", next |-> PushFrom(checkpoint)]
    /\ UNCHANGED <<log, http, initDone, up, boots, cache, checkpoint, disk, syncing,
                   bfStart, bfHead, chunks, watching, pollRange, stream,
                   commits, applied, loadedCkpt, requeried>>
    /\ UNCHANGED subVars
    /\ UNCHANGED <<dirty, saveFails, debounce>>
    /\ UNCHANGED ledgerVars
    /\ UNCHANGED frontendVars

\* The subscription delivers its next entry: it is normalized and put, and
\* the checkpoint advances to the highest position seen.
PushDeliver ==
    /\ up /\ watching /\ push.st = "on"
    /\ push.next <= CurrentHead
    /\ LET res == ApplyRange(cache, push.next, push.next)
       IN /\ cache' = res.cache
          /\ stream' = Publish(stream, res.pub)
          /\ commits' = commits \o res.com
    /\ checkpoint' = AdvanceCheckpoint(checkpoint, push.next)
    /\ applied' = applied \cup {push.next}
    /\ push' = [push EXCEPT !.next = push.next + 1]
    /\ UNCHANGED <<log, http, initDone, up, boots, disk, syncing, bfStart, bfHead, chunks,
                   watching, pollRange, loadedCkpt, requeried>>
    /\ UNCHANGED subVars
    /\ dirty' = TRUE
    /\ debounce' = Rearm(debounce, dirty)
    /\ UNCHANGED saveFails
    /\ UNCHANGED ledgerVars
    /\ UNCHANGED frontendVars

\* The subscription's transport fails: the watcher is reconnecting.
PushError ==
    /\ up /\ push.st = "on"
    /\ push' = [st |-> "down", next |-> 0]
    /\ UNCHANGED <<log, http, initDone, up, boots, cache, checkpoint, disk, syncing,
                   bfStart, bfHead, chunks, watching, pollRange, stream,
                   commits, applied, loadedCkpt, requeried>>
    /\ UNCHANGED subVars
    /\ UNCHANGED <<dirty, saveFails, debounce>>
    /\ UNCHANGED ledgerVars
    /\ UNCHANGED frontendVars

\* ------------------------------------------------------- Durability
\* Mutant: cleared pixels (colour 0) are left out of the written records.
SnapshotDropCleared(c, ckpt) ==
    [exists |-> TRUE,
     records |-> [k \in {j \in DOMAIN c : c[j].color # 0} |-> c[k]],
     checkpoint |-> ckpt,
     count |-> Cardinality(DOMAIN c)]

\* The snapshot artifact: records, checkpoint and record count, serialized
\* in one synchronous pass over the Cache.
SnapshotOf(c, ckpt) ==
    [exists |-> TRUE, records |-> c, checkpoint |-> ckpt,
     count |-> Cardinality(DOMAIN c)]

\* The debounce timer fires: the Cache and the checkpoint are written and
\* no snapshot remains scheduled.
SaveSnapshot ==
    /\ up /\ "sync" \in initDone
    /\ dirty
    /\ disk' = SnapshotOf(cache, checkpoint)
    /\ UNCHANGED <<log, http, push, initDone, up, boots, cache, checkpoint, syncing, bfStart, bfHead,
                   chunks, watching, pollRange, stream, commits,
                   applied, loadedCkpt, requeried>>
    /\ UNCHANGED subVars
    /\ dirty' = FALSE
    /\ UNCHANGED debounce
    /\ UNCHANGED saveFails
    /\ UNCHANGED ledgerVars
    /\ UNCHANGED frontendVars

\* The scheduler's clock ticks while a snapshot is scheduled and not due
\* (a due snapshot is written before the next tick).
Tick ==
    /\ up /\ dirty
    /\ ~Due(debounce)
    /\ debounce' = [quiet |-> debounce.quiet + 1, stale |-> debounce.stale + 1]
    /\ UNCHANGED <<log, http, push, initDone, up, boots, disk, stream, commits,
                   applied, loadedCkpt, requeried, dirty, saveFails>>
    /\ UNCHANGED ingestVars
    /\ UNCHANGED subVars
    /\ UNCHANGED ledgerVars
    /\ UNCHANGED frontendVars

\* The scheduled snapshot is written when it is due.
DebounceFire == Due(debounce) /\ SaveSnapshot

\* Mutant: a failed write leaves no snapshot scheduled.
WriteFailureForgets(d) == FALSE

\* After a failed write the snapshot stays scheduled: the next debounce
\* cycle writes again.
AfterWriteFailure(d) == d

\* The debounce timer fires and the write fails: the failure is logged and
\* the artifact stays as it was (the write is atomic).
SnapshotWriteFail ==
    /\ up /\ "sync" \in initDone
    /\ dirty
    /\ Len(saveFails) < MaxSaveFails
    /\ saveFails' = Append(saveFails, Len(commits))
    /\ dirty' = AfterWriteFailure(dirty)
    /\ debounce' = Idle
    /\ UNCHANGED <<log, http, push, initDone, up, boots, disk, stream, commits>>
    /\ UNCHANGED ingestVars
    /\ UNCHANGED subVars
    /\ UNCHANGED ledgerVars
    /\ UNCHANGED frontendVars

\* The process ends (signal or crash): what was in memory is gone and every
\* stream connection closes.
ProcessExit ==
    /\ up
    /\ up' = FALSE
    /\ cache' = EmptyCache
    /\ checkpoint' = Origin
    /\ syncing' = FALSE
    /\ bfStart' = Origin
    /\ bfHead' = Origin
    /\ chunks' = <<>>
    /\ watching' = FALSE
    /\ pollRange' = NoPoll
    /\ callbacks' = {}
    /\ timers' = {}
    /\ slow' = {}
    /\ push' = NoPush
    /\ initDone' = {}
    /\ conn' = [c \in Conns |-> IF conn[c] = "open" THEN "closed" ELSE conn[c]]
    /\ applied' = {}
    /\ requeried' = FALSE
    /\ stream' = [c \in Conns |-> <<>>]
    /\ commits' = <<>>
    /\ subAt' = [c \in Conns |-> 0]
    /\ loadedCkpt' = Origin
    /\ UNCHANGED <<log, http, boots, disk>>
    /\ dirty' = FALSE
    /\ debounce' = Idle
    /\ saveFails' = <<>>
    /\ UNCHANGED ledgerVars
    /\ UNCHANGED frontendVars

\* --------------------------------------------- /api/pixels/stream
\* GET /api/pixels/stream: headers, the connected event, the onPixel
\* callback and the heartbeat interval.  Connections are numbered in the
\* order in which they are opened.
Connect(c) ==
    /\ up /\ conn[c] = "new"
    /\ \A d \in 1..(c - 1) : conn[d] # "new"
    /\ conn' = [conn EXCEPT ![c] = "open"]
    /\ stream' = [stream EXCEPT ![c] = stream[c] \o ConnectWrites(c)]
    /\ callbacks' = callbacks \cup {c}
    /\ timers' = timers \cup {c}
    /\ subAt' = [subAt EXCEPT ![c] = Len(commits)]
    /\ UNCHANGED <<log, http, push, initDone, up, boots, disk, commits, slow>>
    /\ UNCHANGED ingestVars
    /\ UNCHANGED <<dirty, saveFails, debounce>>
    /\ UNCHANGED ledgerVars
    /\ UNCHANGED frontendVars

\* Mutant: the close handler leaves the heartbeat interval set.
IntervalLeftSet(ts, c) == ts

\* clearInterval(heartbeat) of connection c.
ClearInterval(ts, c) == ts \ {c}

\* req 'close': unsubscribe() and clearInterval(heartbeat).  The response
\* object is gone with the connection.
Disconnect(c) ==
    /\ up /\ conn[c] = "open"
    /\ conn' = [conn EXCEPT ![c] = "closed"]
    /\ callbacks' = callbacks \ {c}
    /\ timers' = ClearInterval(timers, c)
    /\ slow' = slow \ {c}
    /\ stream' = [stream EXCEPT ![c] = <<>>]
    /\ subAt' = [subAt EXCEPT ![c] = 0]
    /\ UNCHANGED <<log, http, push, initDone, up, boots, disk, commits>>
    /\ UNCHANGED ingestVars
    /\ UNCHANGED <<dirty, saveFails, debounce>>
    /\ UNCHANGED ledgerVars
    /\ UNCHANGED frontendVars

HeartbeatEvent == [type |-> "heartbeat"]

\* The heartbeats written to connection c.
Beats(c) == Cardinality({i \in DOMAIN stream[c] : stream[c][i] = HeartbeatEvent})

\* Mutant: the heartbeat is put in front of what was written before.
HeartbeatWriteFirst(s) == <<HeartbeatEvent>> \o s

\* res.write of the heartbeat: it follows what was written before.
HeartbeatWrite(s) == Append(s, HeartbeatEvent)

\* The heartbeat interval of connection c fires (every 30 seconds while
\* the interval is set).
Heartbeat(c) ==
    /\ up /\ c \in timers
    /\ Beats(c) < MaxBeats
    /\ stream' = [stream EXCEPT ![c] = HeartbeatWrite(stream[c])]
    /\ UNCHANGED <<log, http, push, initDone, up, boots, disk, commits, callbacks,
                   timers, conn, slow, subAt>>
    /\ UNCHANGED ingestVars
    /\ UNCHANGED <<dirty, saveFails, debounce>>
    /\ UNCHANGED ledgerVars
    /\ UNCHANGED frontendVars

\* The client stops reading: the connection's outbound channel fills up.
ClientStall(c) ==
    /\ up /\ conn[c] = "open" /\ c \notin slow
    /\ slow' = slow \cup {c}
    /\ UNCHANGED <<log, http, push, initDone, up, boots, disk, stream, commits, callbacks, timers,
                   conn, subAt>>
    /\ UNCHANGED ingestVars
    /\ UNCHANGED <<dirty, saveFails, debounce>>
    /\ UNCHANGED ledgerVars
    /\ UNCHANGED frontendVars

\* ------------------------------------------------------- /api/stats
\* Mutant: a chunk counts as progress once it is resolved, skipped or not.
SyncProgressResolved ==
    IF chunks = <<>> THEN 100
    ELSE (100 * Cardinality({i \in DOMAIN chunks : ~Pending(i)})) \div Len(chunks)

\* The share of the Backfill range that has been fetched and applied, in
\* percent (backfillProgressRatio).
SyncProgress ==
    IF chunks = <<>> THEN 100
    ELSE (100 * Cardinality({i \in DOMAIN chunks : chunks[i].st = "done"}))
             \div Len(chunks)

\* getStats(), as returned by GET /api/stats.
GetStats ==
    [totalPixels |-> Cardinality(DOMAIN cache),
     lastProcessedBlock |-> checkpoint,
     isWatching |-> watching,
     isSyncing |-> syncing,
     syncProgress |-> SyncProgress,
     connectedClients |-> Cardinality(callbacks)]

\* -------------------------------------------------- query endpoints
\* A JavaScript number that is an integer, and NaN.
Num(n) == [ok |-> TRUE, n |-> n]
NaN == [ok |-> FALSE, n |-> 0]

\* What an endpoint reports for "no pixel".
Null == [x |-> -1, color |-> -1]

Digits == <<"0", "1", "2", "3", "4", "5", "6", "7", "8", "9">>
IsDigit(c) == \E i \in DOMAIN Digits : Digits[i] = c
DigitVal(c) == (CHOOSE i \in DOMAIN Digits : Digits[i] = c) - 1

RECURSIVE SkipSpace(_)
SkipSpace(s) == IF s # <<>> /\ Head(s) = " " THEN SkipSpace(Tail(s)) ELSE s

\* The value of the longest prefix of decimal digits of s, after acc.
RECURSIVE DigitsValue(_, _)
DigitsValue(s, acc) ==
    IF s = <<>> \/ ~IsDigit(Head(s)) THEN acc
    ELSE DigitsValue(Tail(s), acc * 10 + DigitVal(Head(s)))

\* parseInt(string) with no radix, on a route parameter given as its
\* characters: leading blanks and one sign are skipped, the longest prefix of
\* decimal digits is read and what follows it is ignored; NaN if there is
\* no digit.  (A parameter with a 0x prefix is not among the inputs.)
ParseInt(s) ==
    LET t == SkipSpace(s)
        signed == t # <<>> /\ Head(t) \in {"+", "-"}
        u == IF signed THEN Tail(t) ELSE t
    IN IF u = <<>> \/ ~IsDigit(Head(u)) THEN NaN
       ELSE IF signed /\ Head(t) = "-" THEN Num(0 - DigitsValue(u, 0))
       ELSE Num(DigitsValue(u, 0))

\* isValidCoordinate, on the number parseInt returned.
IsValidCoordinate(v) == v.ok /\ v.n >= 0 /\ v.n < RES

\* The coordinate of a key.
XOf(k) == k % RES
YOf(k) == k \div RES

\* The keys of the Cache whose pixel is at (x, y): the pixel map is keyed by
\* the pair "x,y", so a coordinate off the canvas matches no key.
KeysAt(x, y) == {k \in DOMAIN cache : XOf(k) = x /\ YOf(k) = y}

\* getPixel(x, y): the pixel stored for the coordinate, if any.
GetPixel(x, y) ==
    IF KeysAt(x, y) # {}
    THEN PixelData(cache[CHOOSE k \in KeysAt(x, y) : TRUE])
    ELSE Null

\* Mutant: a pixel of colour 0 is reported like a missing one.
PointLookupHidesCleared(xs, ys) ==
    LET x == ParseInt(xs)
        y == ParseInt(ys)
    IN IF ~IsValidCoordinate(x) \/ ~IsValidCoordinate(y)
       THEN [status |-> 400, pixel |-> Null]
       ELSE LET pixel == GetPixel(x.n, y.n)
            IN IF pixel = Null \/ pixel.color = 0
               THEN [status |-> 404, pixel |-> Null]
               ELSE [status |-> 200, pixel |-> pixel]

\* GET /api/pixels/:x/:y
PointLookup(xs, ys) ==
    LET x == ParseInt(xs)
        y == ParseInt(ys)
    IN IF ~IsValidCoordinate(x) \/ ~IsValidCoordinate(y)
       THEN [status |-> 400, pixel |-> Null]
       ELSE LET pixel == GetPixel(x.n, y.n)
            IN IF pixel = Null
               THEN [status |-> 404, pixel |-> Null]
               ELSE [status |-> 200, pixel |-> pixel]

\* The decimal numeral of a natural number, as the characters of a route
\* parameter.
RECURSIVE Decimal(_)
Decimal(n) ==
    IF n < 10 THEN <<Digits[n + 1]>>
    ELSE Decimal(n \div 10) \o <<Digits[(n % 10) + 1]>>

\* Largest width and height, and largest area, of a region request.
MaxDimension == 1000
MaxRegionArea == 10000

\* isValidDimension(value, max), on the number parseInt returned.
IsValidDimension(v, max) == v.ok /\ v.n > 0 /\ v.n <= max

\* The coordinates of the rectangle, which getRegion looks up.
RegionCoords(sx, sy, w, h) ==
    {<<x, y>> : x \in sx..(sx + w - 1), y \in sy..(sy + h - 1)}

\* The entry of a region for coordinate (x, y).
RegionEntry(x, y) ==
    IF KeysAt(x, y) # {}
    THEN [x |-> x, y |-> y, placedBy |-> "user",
          color |-> cache[CHOOSE k \in KeysAt(x, y) : TRUE].color]
    ELSE [x |-> x, y |-> y, placedBy |-> "none", color |-> 0]

\* Mutant: only the coordinates that hold a pixel yield an entry.
GetRegionExisting(sx, sy, w, h) ==
    SelectSeq([i \in 1..(w * h) |->
                   RegionEntry(sx + ((i - 1) % w), sy + ((i - 1) \div w))],
              LAMBDA e : e.placedBy # "none")

\* getRegion(startX, startY, width, height): one entry per coordinate of the
\* rectangle, row by row.
GetRegion(sx, sy, w, h) ==
    [i \in 1..(w * h) |-> RegionEntry(sx + ((i - 1) % w), sy + ((i - 1) \div w))]

BadRequest == [status |-> 400, count |-> 0, pixels |-> <<>>, lookups |-> {}]

\* GET /api/pixels/region/:startX/:startY/:width/:height.  lookups is the
\* set of coordinates read from the pixel map for the answer.
Region(sxs, sys, ws, hs) ==
    LET startX == ParseInt(sxs)
        startY == ParseInt(sys)
        width == ParseInt(ws)
        height == ParseInt(hs)
    IN IF ~IsValidCoordinate(startX) \/ ~IsValidCoordinate(startY)
       THEN BadRequest
       ELSE IF ~IsValidDimension(width, MaxDimension)
                   \/ ~IsValidDimension(height, MaxDimension)
       THEN BadRequest
       ELSE IF width.n * height.n > MaxRegionArea
       THEN BadRequest
       ELSE LET pixels == GetRegion(startX.n, startY.n, width.n, height.n)
            IN [status |-> 200, count |-> Len(pixels), pixels |-> pixels,
                lookups |-> RegionCoords(startX.n, startY.n, width.n, height.n)]

\* ------------------------------------------------------ full dumps
\* Number(value) on a query parameter given as its characters: blanks
\* around it are dropped, the empty text is 0, a decimal numeral is its
\* value, a numeral with a fraction is a number that is not an integer, and
\* anything else is NaN.  (Hexadecimal and exponent notation are not among
\* the inputs.)
RECURSIVE DropTrailingSpace(_)
DropTrailingSpace(s) ==
    IF s # <<>> /\ s[Len(s)] = " " THEN DropTrailingSpace(SubSeq(s, 1, Len(s) - 1))
    ELSE s

AllDigits(s) == \A i \in DOMAIN s : IsDigit(s[i])

\* A finite JavaScript number that is not an integer.
Fraction == [ok |-> TRUE, n |-> 0, frac |-> TRUE]

IsInteger(v) == v.ok /\ "frac" \notin DOMAIN v

ToNumber(s) ==
    LET t == DropTrailingSpace(SkipSpace(s))
        signed == t # <<>> /\ Head(t) \in {"+", "-"}
        u == IF signed THEN Tail(t) ELSE t
        Signed(n) == IF signed /\ Head(t) = "-" THEN 0 - n ELSE n
        dots == {i \in DOMAIN u : u[i] = "."}
    IN IF t = <<>> THEN Num(0)
       ELSE IF u # <<>> /\ AllDigits(u) THEN Num(Signed(DigitsValue(u, 0)))
       ELSE IF Cardinality(dots) = 1 /\ Len(u) > 1
       THEN LET i == CHOOSE j \in dots : TRUE
                whole == SubSeq(u, 1, i - 1)
                part == SubSeq(u, i + 1, Len(u))
            IN IF ~AllDigits(whole) \/ ~AllDigits(part) THEN NaN
               ELSE IF \A j \in DOMAIN part : part[j] = "0"
               THEN Num(Signed(DigitsValue(whole, 0)))
               ELSE Fraction
       ELSE NaN

\* Largest limit and largest offset of a paginated dump.
MaxLimit == 100000
MaxOffset == 10000000

\* isValidPaginationParam(value, max).
IsValidPaginationParam(s, max) ==
    LET num == ToNumber(s)
    IN num.ok /\ IsInteger(num) /\ num.n >= 0 /\ num.n <= max

\* The keys of the pixel map in the order the dumps enumerate them.
RECURSIVE KeysInOrder(_)
KeysInOrder(ks) ==
    IF ks = {} THEN <<>>
    ELSE LET k == CHOOSE a \in ks : \A b \in ks : a <= b
         IN <<k>> \o KeysInOrder(ks \ {k})

\* A pixel as the descriptive dump gives it (the timestamp, a payload like
\* placedBy, is left out).
PixelJson(r) ==
    [x |-> XOf(r.key), y |-> YOf(r.key), placedBy |-> "user", color |-> r.color]

\* The argument of getPixelsArray when no limit is given.
NoLimit == -1

\* getPixelsArray(limit, offset): the pixels from offset on, at most limit
\* of them.
GetPixelsArray(limit, offset) ==
    LET ks == KeysInOrder(DOMAIN cache)
        all == [i \in 1..Len(ks) |-> PixelJson(cache[ks[i]])]
        last == IF limit = NoLimit THEN Len(all) ELSE Min2(Len(all), offset + limit)
    IN SubSeq(all, offset + 1, last)

\* Mutant: a page that ends with the last record still announces more.
HasMoreInclusive(offsetNum, count, total) == offsetNum + count <= total

\* hasMore of a page of count records from offsetNum on.
HasMore(offsetNum, count, total) == offsetNum + count < total

\* GET /api/pixels, on the query object q (a function from the names of
\* the parameters given to their texts).
Pixels(q) ==
    IF "limit" \in DOMAIN q /\ ~IsValidPaginationParam(q["limit"], MaxLimit)
    THEN [status |-> 400, error |-> "Invalid limit. Must be 0-100000."]
    ELSE IF "offset" \in DOMAIN q /\ ~IsValidPaginationParam(q["offset"], MaxOffset)
    THEN [status |-> 400, error |-> "Invalid offset. Must be 0-10000000."]
    ELSE LET stats == GetStats
             limitNum == IF "limit" \in DOMAIN q THEN ToNumber(q["limit"]).n
                         ELSE NoLimit
             offsetNum == IF "offset" \in DOMAIN q THEN ToNumber(q["offset"]).n
                          ELSE 0
             pixelArray == GetPixelsArray(limitNum, offsetNum)
         IN [status |-> 200,
             count |-> Len(pixelArray),
             total |-> stats.totalPixels,
             hasMore |-> HasMore(offsetNum, Len(pixelArray), stats.totalPixels),
             pixels |-> pixelArray]

\* The four bytes of an unsigned 32-bit integer, least significant first.
WriteUInt32LE(n) ==
    <<n % 256, (n \div 256) % 256, (n \div 65536) % 256, (n \div 16777216) % 256>>

\* getPixelsBinary(): x, y and colour of every pixel, 12 bytes each.
GetPixelsBinary ==
    LET ks == KeysInOrder(DOMAIN cache)
        RECURSIVE Concat(_)
        Concat(i) ==
            IF i > Len(ks) THEN <<>>
            ELSE WriteUInt32LE(XOf(ks[i])) \o WriteUInt32LE(YOf(ks[i]))
                     \o WriteUInt32LE(cache[ks[i]].color) \o Concat(i + 1)
    IN Concat(1)

\* Bytes of one record of the binary dump.
RecordBytes == 12

\* (buffer.length / 12).toString(): the numeral of the quotient (a length
\* that is not a multiple of 12 gives a numeral with a fraction, written
\* here up to the point).
PixelCountHeader(len) ==
    IF len % RecordBytes = 0 THEN Decimal(len \div RecordBytes)
    ELSE Decimal(len \div RecordBytes) \o <<".">>

\* GET /api/pixels/binary
PixelsBinary ==
    LET buffer == GetPixelsBinary
    IN [status |-> 200,
        contentLength |-> Decimal(Len(buffer)),
        pixelCount |-> PixelCountHeader(Len(buffer)),
        body |-> buffer]

\* Mutant: the bytes are read most significant first.
GetUint32BigEndian(buffer, offset) ==
    16777216 * buffer[offset + 1] + 65536 * buffer[offset + 2]
        + 256 * buffer[offset + 3] + buffer[offset + 4]

\* dataView.getUint32(offset, true): little-endian.
GetUint32(buffer, offset) ==
    buffer[offset + 1] + 256 * buffer[offset + 2]
        + 65536 * buffer[offset + 3] + 16777216 * buffer[offset + 4]

\* fetchAllPixels: the pixels of the descriptive dump, or none on an error.
FetchAllPixels ==
    LET data == Pixels(<<>>)
    IN IF data.status = 200 THEN data.pixels ELSE <<>>

\* fetchAllPixelsBinary: the records decoded from the binary dump; on an
\* error (a status that is not ok, a read past the end of the buffer) the
\* client falls back to the descriptive dump.
FetchAllPixelsBinary ==
    LET response == PixelsBinary
        buffer == response.body
        pixelCount == Len(buffer) \div RecordBytes
    IN IF response.status # 200 \/ Len(buffer) % RecordBytes # 0
       THEN FetchAllPixels
       ELSE [i \in 1..pixelCount |->
                [x |-> GetUint32(buffer, (i - 1) * RecordBytes),
                 y |-> GetUint32(buffer, (i - 1) * RecordBytes + 4),
                 color |-> GetUint32(buffer, (i - 1) * RecordBytes + 8),
                 placedBy |-> ""]]

Next ==
    \/ LedgerAppend
    \/ Start
    \/ \E i \in DOMAIN chunks : ChunkOk(i)
    \/ \E i \in DOMAIN chunks : ChunkFail(i)
    \/ BackfillFinish
    \/ PollIssue
    \/ PollOk
    \/ PollFail
    \/ SaveSnapshot
    \/ ProcessExit
    \/ \E c \in Conns : Connect(c)
    \/ \E c \in Conns : Disconnect(c)
    \/ \E c \in Conns : ClientStall(c)

Spec == Init /\ [][Next]_vars

\* ------------------------------------------- ingestion, with fairness
\* The ingestion pipeline on its own: no stream connection is opened.
NextIngest ==
    \/ LedgerAppend
    \/ Start
    \/ \E i \in DOMAIN chunks : ChunkOk(i)
    \/ \E i \in DOMAIN chunks : ChunkFail(i)
    \/ BackfillFinish
    \/ PollIssue
    \/ PollOk
    \/ PollFail
    \/ SaveSnapshot
    \/ ProcessExit

\* A range query is subject to a timeout, so the query of a chunk in flight
\* returns, with entries or with an error; the end of Backfill runs once
\* every chunk is resolved.  Whether a query succeeds is left open.
ChunkReturns == \E i \in DOMAIN chunks : ChunkOk(i) \/ ChunkFail(i)

FairIngest ==
    /\ Init /\ [][NextIngest]_vars
    /\ WF_vars(ChunkReturns)
    /\ WF_vars(BackfillFinish)

\* ------------------------------------------------------- properties
NumPixels(s) == Cardinality({i \in DOMAIN s : s[i].type = "pixel"})

\* The pixel payloads of a stream, in the order written.
RECURSIVE PixelsOf(_)
PixelsOf(s) ==
    IF s = <<>> THEN <<>>
    ELSE (IF Head(s).type = "pixel" THEN <<Head(s).data>> ELSE <<>>)
             \o PixelsOf(Tail(s))

\* The payloads of the commits after the first n.
CommitsAfter(n) == [i \in 1..(Len(commits) - n) |-> PixelData(commits[n + i])]

\* The positions applied so far whose entry is for key k.
AppliedFor(k) == {p \in applied : log[p].key = k}

SameBoot == up /\ up' /\ boots' = boots

\* C1: last-write-wins per key.  Once entries for a key have reached put, in
\* whatever order, the Cache holds the record of the one with the highest
\* position, and no put replaces a record by one with a lower position.
C1_LastWriteWins ==
    /\ [](up => \A k \in Keys :
              /\ (k \in DOMAIN cache <=> AppliedFor(k) # {})
              /\ (k \in DOMAIN cache =>
                      cache[k] = RecordOf(SetMax(AppliedFor(k)))))
    /\ [][SameBoot => \A k \in DOMAIN cache :
              k \in DOMAIN cache' /\ cache'[k].pos >= cache[k].pos]_vars

\* C1 witness: three entries of one key have all been applied, the one at
\* position 3 first, so that the two older ones arrived after it.
C1_Witness ==
    /\ up /\ boots = 1
    /\ \E k \in Keys : AppliedFor(k) = {1, 2, 3}
    /\ Len(commits) = 1 /\ commits[1].pos = 3

\* C2: idempotent apply.  put changes the Cache only when the incoming
\* position is strictly greater than the one stored for the key; an entry at
\* or below the stored position, a second application of the same entry
\* included, leaves the whole Cache as it was.
C2_IdempotentPut ==
    up => \A p \in 1..CurrentHead :
              LET r == RecordOf(p)
                  stale == r.key \in DOMAIN cache /\ r.pos <= cache[r.key].pos
              IN /\ (stale => Put(cache, r) = cache)
                 /\ (Put(cache, r) # cache => ~stale)
                 /\ Put(Put(cache, r), r) = Put(cache, r)

\* C2 witness: in the first run of the process fewer puts changed the Cache
\* than positions reached put, so some entry was rejected as not newer.
C2_Witness ==
    /\ up /\ boots = 1
    /\ Cardinality(applied) > Len(commits)
    /\ \E p \in applied : cache[log[p].key].pos >= p

\* C3: monotonic checkpoint.  Over the steps of one process the checkpoint
\* never decreases and is never greater than the highest position of an
\* entry applied so far.
C3_CheckpointMonotoneBounded ==
    [][SameBoot => /\ checkpoint' >= checkpoint
                   /\ checkpoint' <= SetMax(applied')]_vars

C9_NoGapsBelowCheckpoint ==
    (up /\ ~syncing) =>
        \A p \in 1..checkpoint :
            /\ log[p].key \in DOMAIN cache
            /\ cache[log[p].key].pos >= p

\* C10: resume from the checkpoint.  After a start that loaded checkpoint c,
\* Backfill scans from c + 1 and no range query, of a Backfill chunk or of a
\* Live Tail poll, asks for a position at or before c.
C10_ResumeFromCheckpoint ==
    up => /\ bfStart = loadedCkpt
          /\ ~requeried
          /\ \A i \in DOMAIN chunks : ChunkLo(i) > loadedCkpt
          /\ pollRange.active => pollRange.from > loadedCkpt

\* C10 witness: a restart loaded a snapshot whose checkpoint is past the
\* origin and its Backfill has fetched and applied a chunk beyond it.
C10_Witness ==
    /\ up /\ boots = 2 /\ disk.exists
    /\ loadedCkpt >= 1
    /\ \E i \in DOMAIN chunks : chunks[i].st = "done" /\ ChunkLo(i) = loadedCkpt + 1

\* The number of puts that changed the Cache in a step.
CommittedInStep == Len(commits') - Len(commits)

\* C5: no publish for a no-op apply.  In every step a subscriber is written
\* at most as many pixel events as puts changed the Cache in that step; a
\* step whose puts were all rejected changes neither the Cache nor a stream.
C5_NoPublishForNoOp ==
    [][\A c \in Conns :
           NumPixels(stream'[c]) > NumPixels(stream[c]) =>
               /\ cache' # cache
               /\ NumPixels(stream'[c]) - NumPixels(stream[c]) <= CommittedInStep]_vars

\* C5 witness: a subscriber connected before the first commit has received
\* one pixel event per commit while some put was rejected as not newer.
C5_Witness ==
    /\ up /\ boots = 1
    /\ Cardinality(applied) > Len(commits)
    /\ \E c \in callbacks :
           subAt[c] = 0 /\ Len(commits) >= 1 /\ NumPixels(stream[c]) = Len(commits)

\* C6: fan-out delivery.  Each subscriber that is registered has been
\* written, since it subscribed, exactly one pixel event per put that
\* changed the Cache, carrying that record, in commit order.
C6_FanOutDelivery ==
    \A c \in callbacks : PixelsOf(stream[c]) = CommitsAfter(subAt[c])

\* C6 witness: a subscriber connected, then one record was committed, and
\* its stream holds exactly that one pixel event after the connected event.
C6_Witness ==
    \E c \in callbacks :
        /\ subAt[c] = 0 /\ Len(commits) = 1
        /\ stream[c] = <<ConnectedEvent, PixelEvent(commits[1])>>

\* C7: no replay.  The pixel events on a connection answer, one for one, the
\* commits made after it subscribed: none is for a put committed before its
\* subscribe completed.
C7_NoReplay ==
    \A c \in Conns :
        conn[c] = "open" =>
            LET px == PixelsOf(stream[c])
            IN /\ subAt[c] + Len(px) <= Len(commits)
               /\ \A i \in 1..Len(px) : px[i] = PixelData(commits[subAt[c] + i])

\* C7 witness: a subscriber that connected after a commit has been written
\* the connected event and no pixel event, while the record is in the Cache.
C7_Witness ==
    \E c \in callbacks :
        /\ subAt[c] >= 1
        /\ stream[c] = <<ConnectedEvent>>
        /\ DOMAIN cache # {}

\* C8: a slow subscriber is dropped.  When a put commits and publish meets a
\* subscriber whose outbound channel is full, that subscriber is
\* unsubscribed, and every other subscriber is written the record.
C8_SlowSubscriberDropped ==
    [][(SameBoot /\ CommittedInStep > 0) =>
           /\ \A c \in callbacks \cap slow : c \notin callbacks'
           /\ \A c \in callbacks \ slow :
                  NumPixels(stream'[c]) = NumPixels(stream[c]) + CommittedInStep]_vars

\* ------------------------------- Live Tail on both transports, fair
\* Live Tail with the push subscription next to the polling loop, after a
\* Backfill whose range queries succeed; no snapshot is written.
NextTail ==
    \/ LedgerAppend
    \/ Start
    \/ \E i \in DOMAIN chunks : ChunkOk(i)
    \/ BackfillFinish
    \/ PollIssue
    \/ PollOk
    \/ PollFail
    \/ ProcessExit
    \/ PushSubscribe
    \/ PushDeliver
    \/ PushError

\* The poll timer keeps ticking, and the ledger does not fail every poll:
\* polls that are issued again and again succeed at some time.  Nothing is
\* assumed of the push subscription.
FairTail ==
    /\ Init /\ [][NextTail]_vars
    /\ WF_vars(PollIssue)
    /\ SF_vars(PollOk)

\* --------------------------------------------- startup, step by step
\* Ingestion with the start of the process taken one step at a time.
NextStartup ==
    \/ LedgerAppend
    \/ Listen
    \/ LoadStorage
    \/ SyncStart
    \/ WatchStart
    \/ \E i \in DOMAIN chunks : ChunkOk(i)
    \/ \E i \in DOMAIN chunks : ChunkFail(i)
    \/ BackfillFinish
    \/ PollIssue
    \/ PollOk
    \/ PollFail
    \/ SaveSnapshot
    \/ ProcessExit

StartupSpec == Init /\ [][NextStartup]_vars

\* ------------------------------------------------- region requests
\* Keys of the pixels near the corners of the canvas: (0,0), (1,0),
\* (RES-1,0) and (0,1).
RegionKeys == {Key(0, 0), Key(1, 0), Key(RES - 1, 0), Key(0, 1)}

RegionLogs ==
    UNION {[1..n -> RegionKeys] : n \in 0..MaxRegionLog}

\* Route parameters: numerals at and around the limits, and texts that are
\* not integer numerals.
CoordParams ==
    {Decimal(0), Decimal(1), Decimal(RES - 2), Decimal(RES - 1), Decimal(RES),
     <<"-", "1">>, <<"1", ".", "5">>, <<"a", "b", "c">>, <<" ", "1">>,
     <<"1", "p", "x">>}
DimParams ==
    {Decimal(0), Decimal(1), Decimal(2), Decimal(3), <<"-", "1">>,
     <<"2", ".", "9">>, <<"x">>}

RegionRequests ==
    (CoordParams \X {Decimal(0), Decimal(1), Decimal(RES - 1), <<"1", ".", "5">>}
         \X DimParams \X {Decimal(0), Decimal(1), Decimal(2), <<"x">>})
    \cup {<<Decimal(0), Decimal(0), Decimal(100), Decimal(100)>>,
          <<Decimal(0), Decimal(0), Decimal(101), Decimal(100)>>,
          <<Decimal(0), Decimal(0), Decimal(MaxDimension), Decimal(10)>>,
          <<Decimal(0), Decimal(0), Decimal(MaxDimension), Decimal(11)>>,
          <<Decimal(0), Decimal(0), Decimal(MaxDimension + 1), Decimal(1)>>}

\* The process after it has ingested a log of placements near the corners
\* of the canvas, with no request answered yet.
InitRegion ==
    /\ log \in {[p \in DOMAIN l |-> [key |-> l[p], color |-> ColorAt(p)]] :
                   l \in RegionLogs}
    /\ up = TRUE
    /\ boots = 1
    /\ initDone = InitializeSteps
    /\ cache = ApplyRange(EmptyCache, 1, Len(log)).cache
    /\ checkpoint = Len(log)
    /\ disk = NoSnapshot
    /\ syncing = FALSE
    /\ bfStart = Origin
    /\ bfHead = Len(log)
    /\ chunks = [i \in 1..NumChunks(Origin, Len(log)) |->
                     [st |-> "done", tries |-> 0]]
    /\ watching = TRUE
    /\ pollRange = NoPoll
    /\ callbacks = {}
    /\ timers = {}
    /\ conn = [c \in Conns |-> "new"]
    /\ stream = [c \in Conns |-> <<>>]
    /\ slow = {}
    /\ push = NoPush
    /\ http = NoRequest
    /\ commits = ApplyRange(EmptyCache, 1, Len(log)).com
    /\ subAt = [c \in Conns |-> 0]
    /\ applied = 1..Len(log)
    /\ loadedCkpt = Origin
    /\ requeried = FALSE
    /\ dirty = FALSE
    /\ debounce = Idle
    /\ saveFails = <<>>
    /\ now = StartTime
    /\ canvas = EmptyCanvas
    /\ lastPlaced = [u \in Users |-> 0]
    /\ premiumAccess = [u \in Users |-> 0]
    /\ tx = NoCall
    /\ Mounted

\* A region request is answered (one request is followed per run).
RegionRequest ==
    /\ up /\ http = NoRequest
    /\ \E r \in RegionRequests :
           http' = [req |-> r, resp |-> Region(r[1], r[2], r[3], r[4])]
    /\ UNCHANGED <<log, up, boots, initDone, disk, stream, commits, push>>
    /\ UNCHANGED ingestVars
    /\ UNCHANGED subVars
    /\ UNCHANGED <<dirty, saveFails, debounce>>
    /\ UNCHANGED ledgerVars
    /\ UNCHANGED frontendVars

NextRegion == RegionRequest

RegionSpec == InitRegion /\ [][NextRegion]_vars

\* ------------------------------------------------- ledger contract
\* Everything the backend process holds: no call of the ledger touches it.
backendVars == <<up, boots, initDone, cache, checkpoint, disk, syncing, bfStart,
                 bfHead, chunks, watching, pollRange, callbacks, timers, conn,
                 stream, slow, push, http, commits, subAt, applied, loadedCkpt,
                 requeried, dirty, saveFails, debounce>>

\* The deployer of the contract.
owner == 1

\* The users that are granted premium access in a run, and the caller of
\* the view functions (a view reads nothing of its caller).
Payers == Users \ {owner}
Viewers == {owner}

\* Seconds between two placements of a regular user.
RateLimitSeconds == 15
\* Seconds of premium access that a grant buys: 2 hours.
PremiumSeconds == 7200
\* The price of premium access, 0.01 ether, in milliether.
PremiumPrice == 10
\* The colour stored for a placement of colour 0.
NearBlack == 65793
\* Largest number of pixels of a batch.
MaxBatch == 100

\* Block times of a run: the start, 5 seconds later, and the ends of the
\* rate limit and of the premium access counted from the start.
Instants ==
    {StartTime + d : d \in {0, 5, RateLimitSeconds, PremiumSeconds, PremiumSeconds + 1}}

\* Time passes: a later block is mined.
AdvanceTime ==
    /\ \E t \in Instants : t > now /\ now' = t
    /\ UNCHANGED <<log, canvas, lastPlaced, premiumAccess, tx>>
    /\ UNCHANGED backendVars
    /\ UNCHANGED frontendVars

\* The record of a call by sender with the values the call read.
CallOf(fn, sender, args) ==
    [fn |-> fn, sender |-> sender, args |-> args, currentTime |-> now,
     userPremiumExpiry |-> premiumAccess[sender], lastTime |-> lastPlaced[sender]]

Outcome(call, ok, reason, ret) ==
    [fn |-> call.fn, sender |-> call.sender, args |-> call.args,
     currentTime |-> call.currentTime,
     userPremiumExpiry |-> call.userPremiumExpiry, lastTime |-> call.lastTime,
     ok |-> ok, reason |-> reason, ret |-> ret]

\* A require fails: the call reverts and nothing but its outcome is left.
Revert(call, reason) ==
    /\ tx' = Outcome(call, FALSE, reason, <<>>)
    /\ UNCHANGED <<log, now, canvas, lastPlaced, premiumAccess>>

\* A view call returns: nothing but its outcome is left.
Return(call, ret) ==
    /\ tx' = Outcome(call, TRUE, "", ret)
    /\ UNCHANGED <<log, now, canvas, lastPlaced, premiumAccess>>

\* Mutant: the rate limit applies from the second of the expiry on.
RateLimitedAtExpiry(currentTime, userPremiumExpiry) == currentTime >= userPremiumExpiry

\* The rate limit applies to a caller whose premium access has expired.
RateLimited(currentTime, userPremiumExpiry) == currentTime > userPremiumExpiry

\* The colour that is stored and emitted for a placed colour.
StoredColor(color) == IF color = 0 THEN NearBlack ELSE color

\* The PixelPlaced entry of a placement; arg is the colour the caller
\* gave (history).
PixelPlaced(user, px, py, storedColor, currentTime, arg) ==
    [key |-> Key(px, py), color |-> storedColor, user |-> user,
     timestamp |-> currentTime, arg |-> arg]

\* Coordinates and colours of the placements of a run.
PlaceCoords == {<<0, 0>>, <<1, 0>>, <<RES, 0>>, <<0, RES>>}
LedgerColors == {0, 16711680}

\* placePixel(px, py, color) by user u.
PlacePixel ==
    /\ \E u \in Users, c \in PlaceCoords, color \in LedgerColors :
           LET px == c[1]
               py == c[2]
               call == CallOf("placePixel", u, <<px, py, color>>)
               currentTime == now
               userPremiumExpiry == premiumAccess[u]
               lastTime == lastPlaced[u]
           IN IF ~(px < RES /\ py < RES)
              THEN Revert(call, "Megaplace: invalid coordinates")
              ELSE IF RateLimited(currentTime, userPremiumExpiry)
                          /\ ~(currentTime >= lastTime + RateLimitSeconds)
              THEN Revert(call, "Megaplace: rate limit exceeded")
              ELSE LET storedColor == StoredColor(color)
                   IN /\ Len(log) < MaxPlaced
                      /\ canvas' = [canvas EXCEPT ![Key(px, py)] =
                                        [color |-> storedColor, placedBy |-> u,
                                         timestamp |-> currentTime]]
                      /\ lastPlaced' = [lastPlaced EXCEPT ![u] = currentTime]
                      /\ log' = Append(log, PixelPlaced(u, px, py, storedColor,
                                                        currentTime, color))
                      /\ tx' = Outcome(call, TRUE, "", <<>>)
                      /\ UNCHANGED <<now, premiumAccess>>
    /\ UNCHANGED backendVars
    /\ UNCHANGED frontendVars

\* Batches of a run: the three arrays of placePixelBatch.
Batches ==
    {[px |-> <<0, 1>>, py |-> <<0, 0>>, colors |-> <<16711680, 0>>],
     [px |-> <<0, RES>>, py |-> <<0, 0>>, colors |-> <<0, 0>>],
     [px |-> <<0, 1>>, py |-> <<0>>, colors |-> <<0, 0>>],
     [px |-> <<>>, py |-> <<>>, colors |-> <<>>],
     [px |-> [i \in 1..(MaxBatch + 1) |-> 0], py |-> [i \in 1..(MaxBatch + 1) |-> 0],
      colors |-> [i \in 1..(MaxBatch + 1) |-> 0]]}

\* The loop of placePixelBatch from pixel i on: the canvas and the entries
\* emitted, or a revert at a pixel off the canvas.
RECURSIVE PlaceAll(_, _, _, _, _)
PlaceAll(b, i, u, currentTime, cv) ==
    IF i > Len(b.px) THEN [ok |-> TRUE, canvas |-> cv, events |-> <<>>]
    ELSE IF ~(b.px[i] < RES /\ b.py[i] < RES)
    THEN [ok |-> FALSE, canvas |-> cv, events |-> <<>>]
    ELSE LET storedColor == StoredColor(b.colors[i])
             rest == PlaceAll(b, i + 1, u, currentTime,
                              [cv EXCEPT ![Key(b.px[i], b.py[i])] =
                                   [color |-> storedColor, placedBy |-> u,
                                    timestamp |-> currentTime]])
         IN [ok |-> rest.ok, canvas |-> rest.canvas,
             events |-> <<PixelPlaced(u, b.px[i], b.py[i], storedColor,
                                      currentTime, b.colors[i])>> \o rest.events]

\* placePixelBatch(px, py, colors) by user u.
PlacePixelBatch ==
    /\ \E u \in Users, b \in Batches :
           LET length == Len(b.px)
               call == CallOf("placePixelBatch", u, <<b.px, b.py, b.colors>>)
               currentTime == now
               userPremiumExpiry == premiumAccess[u]
               lastTime == lastPlaced[u]
           IN IF ~(length = Len(b.py) /\ length = Len(b.colors))
              THEN Revert(call, "Megaplace: array length mismatch")
              ELSE IF ~(length > 0 /\ length <= MaxBatch)
              THEN Revert(call, "Megaplace: batch size must be 1-100")
              ELSE IF RateLimited(currentTime, userPremiumExpiry)
                          /\ ~(currentTime >= lastTime + RateLimitSeconds)
              THEN Revert(call, "Megaplace: rate limit exceeded")
              ELSE LET res == PlaceAll(b, 1, u, currentTime, canvas)
                   IN IF ~res.ok
                      THEN Revert(call, "Megaplace: invalid coordinates")
                      ELSE /\ Len(log) + length <= MaxPlaced
                           /\ canvas' = res.canvas
                           /\ lastPlaced' = [lastPlaced EXCEPT ![u] = currentTime]
                           /\ log' = log \o res.events
                           /\ tx' = Outcome(call, TRUE, "", <<>>)
                           /\ UNCHANGED <<now, premiumAccess>>
    /\ UNCHANGED backendVars
    /\ UNCHANGED frontendVars

\* grantPremiumAccess() by user u, paying value.
GrantPremiumAccess ==
    /\ \E u \in Payers, value \in {0, PremiumPrice} :
           LET call == CallOf("grantPremiumAccess", u, <<value>>)
           IN IF value # PremiumPrice
              THEN Revert(call, "Megaplace: incorrect payment amount")
              ELSE /\ premiumAccess' = [premiumAccess EXCEPT ![u] = now + PremiumSeconds]
                   /\ tx' = Outcome(call, TRUE, "", <<>>)
                   /\ UNCHANGED <<log, now, canvas, lastPlaced>>
    /\ UNCHANGED backendVars
    /\ UNCHANGED frontendVars

\* adminGrantPremiumAccess(user) by sender s.
AdminGrantPremiumAccess ==
    /\ \E s \in Users, user \in Payers :
           LET call == CallOf("adminGrantPremiumAccess", s, <<user>>)
           IN IF s # owner
              THEN Revert(call, "Ownable: caller is not the owner")
              ELSE /\ premiumAccess' = [premiumAccess EXCEPT ![user] = now + PremiumSeconds]
                   /\ tx' = Outcome(call, TRUE, "", <<>>)
                   /\ UNCHANGED <<log, now, canvas, lastPlaced>>
    /\ UNCHANGED backendVars
    /\ UNCHANGED frontendVars

\* getCooldown(user): canPlace and cooldownRemaining.
GetCooldown(user) ==
    LET currentTime == now
        userPremiumExpiry == premiumAccess[user]
        nextAvailable == lastPlaced[user] + RateLimitSeconds
    IN IF currentTime <= userPremiumExpiry THEN <<TRUE, 0>>
       ELSE IF currentTime >= nextAvailable THEN <<TRUE, 0>>
       ELSE <<FALSE, nextAvailable - currentTime>>

GetCooldownCall ==
    /\ \E u \in Viewers, user \in Users :
           Return(CallOf("getCooldown", u, <<user>>), GetCooldown(user))
    /\ UNCHANGED backendVars
    /\ UNCHANGED frontendVars

\* getPixel(px, py) by user u.
LedgerGetPixel ==
    /\ \E u \in Viewers, c \in PlaceCoords :
           LET px == c[1]
               py == c[2]
               call == CallOf("getPixel", u, <<px, py>>)
           IN IF ~(px < RES /\ py < RES)
              THEN Revert(call, "Megaplace: invalid coordinates")
              ELSE Return(call, canvas[Key(px, py)])
    /\ UNCHANGED backendVars
    /\ UNCHANGED frontendVars

\* The colour of a canvas index (an index no call of the run wrote holds the
\* zero struct).
ColorOf(index) == IF index \in DOMAIN canvas THEN canvas[index].color ELSE 0

\* Regions requested near the origin, and the largest ones requested of the
\* canvas before the first call.
SmallRegions ==
    {<<0, 0, 2, 2>>, <<1, 0, 1, 2>>, <<0, 0, 0, 1>>, <<0, 0, 1, 0>>,
     <<RES, 0, 1, 1>>, <<0, RES, 1, 1>>, <<RES - 1, 0, 2, 1>>, <<0, RES - 1, 1, 2>>}
LargeRegions == {<<0, 0, 100, 100>>, <<0, 0, 101, 100>>}

\* getRegion(startPx, startPy, width, height) by user u.
LedgerGetRegion ==
    /\ \E u \in Viewers,
          r \in SmallRegions \cup (IF tx = NoCall /\ now = StartTime
                                   THEN LargeRegions ELSE {}) :
           LET startPx == r[1]
               startPy == r[2]
               width == r[3]
               height == r[4]
               call == CallOf("getRegion", u, r)
           IN IF ~(startPx < RES /\ startPy < RES)
              THEN Revert(call, "Megaplace: invalid start coordinates")
              ELSE IF ~(startPx + width <= RES /\ startPy + height <= RES)
              THEN Revert(call, "Megaplace: region out of bounds")
              ELSE IF ~(width > 0 /\ height > 0)
              THEN Revert(call, "Megaplace: invalid dimensions")
              ELSE Return(call,
                          [arrayIndex \in 1..(width * height) |->
                               LET dx == (arrayIndex - 1) % width
                                   dy == (arrayIndex - 1) \div width
                               IN ColorOf(Key(startPx + dx, startPy + dy))])
    /\ UNCHANGED backendVars
    /\ UNCHANGED frontendVars

NextLedger ==
    \/ AdvanceTime
    \/ PlacePixel
    \/ PlacePixelBatch
    \/ GrantPremiumAccess
    \/ AdminGrantPremiumAccess
    \/ GetCooldownCall
    \/ LedgerGetPixel
    \/ LedgerGetRegion

LedgerSpec == Init /\ [][NextLedger]_vars

\* ------------------------------------------------- stream connections
\* Ingestion with stream clients that connect, receive heartbeats and
\* disconnect.
NextStream ==
    \/ LedgerAppend
    \/ Start
    \/ \E i \in DOMAIN chunks : ChunkOk(i)
    \/ BackfillFinish
    \/ PollIssue
    \/ PollOk
    \/ ProcessExit
    \/ \E c \in Conns : Connect(c)
    \/ \E c \in Conns : Disconnect(c)
    \/ \E c \in Conns : Heartbeat(c)

StreamSpec == Init /\ [][NextStream]_vars

\* ------------------------------------------------- debounced snapshot
\* Ingestion with the clock of the snapshot scheduler.
NextDebounce ==
    \/ LedgerAppend
    \/ Start
    \/ \E i \in DOMAIN chunks : ChunkOk(i)
    \/ BackfillFinish
    \/ PollIssue
    \/ PollOk
    \/ Tick
    \/ DebounceFire

\* Time passes and a due snapshot is written.
DebounceSpec ==
    Init /\ [][NextDebounce]_vars /\ WF_vars(Tick) /\ WF_vars(DebounceFire)

\* ------------------------------------------------- frontend poller
\* The block of log position p: block 1 is the deployment block, every
\* later block holds one entry.
BlockOf(p) == p + 1

\* getBlockNumber: the head of the chain.
BlockNumber == BlockOf(Len(log))

\* getLogs: the positions of the PixelPlaced entries of the blocks
\* fromBlock .. toBlock, in order.
RECURSIVE GetLogs(_, _)
GetLogs(fromBlock, toBlock) ==
    IF fromBlock > toBlock THEN <<>>
    ELSE GetLogs(fromBlock, toBlock - 1)
             \o (IF toBlock >= 2 /\ toBlock <= BlockNumber THEN <<toBlock - 1>> ELSE <<>>)

\* The positions of logs that are passed to onPixelPlaced: a log without
\* arguments is skipped.
RECURSIVE Callbacks(_)
Callbacks(logs) ==
    IF logs = <<>> THEN <<>>
    ELSE (IF WellFormed(log[Head(logs)]) THEN <<Head(logs)>> ELSE <<>>)
             \o Callbacks(Tail(logs))

\* The interval fires: pollForNewEvents is called and, if the effect is
\* active, awaits getBlockNumber.
IntervalTick ==
    /\ intervalId
    /\ Len(polls) < MaxPolls
    /\ polls' = Append(polls, IF ~isActive THEN [pc |-> "returned"] ELSE NewPoll)
    /\ UNCHANGED <<log, lastProcessedBlockRef, isActive, intervalId, delivered>>
    /\ UNCHANGED <<backendVars, ledgerVars, mapVars>>

\* getBlockNumber of poll i returns: the range is computed from the cursor
\* as it is now, and getLogs is called if the range is not empty.
GetBlockNumberOk(i) ==
    /\ polls[i].pc = "getBlockNumber"
    /\ LET currentBlock == BlockNumber
           fromBlock == IF lastProcessedBlockRef = 0 THEN currentBlock
                        ELSE lastProcessedBlockRef + 1
       IN polls' = [polls EXCEPT ![i] =
                        IF fromBlock <= currentBlock
                        THEN [pc |-> "getLogs", fromBlock |-> fromBlock,
                              currentBlock |-> currentBlock]
                        ELSE [pc |-> "returned"]]
    /\ UNCHANGED <<log, lastProcessedBlockRef, isActive, intervalId, delivered>>
    /\ UNCHANGED <<backendVars, ledgerVars, mapVars>>

\* getLogs of poll i returns: the callback is called for every log and the
\* cursor is set to the poll's currentBlock.
GetLogsOk(i) ==
    /\ polls[i].pc = "getLogs"
    /\ delivered' = delivered
                        \o Callbacks(GetLogs(polls[i].fromBlock, polls[i].currentBlock))
    /\ lastProcessedBlockRef' = polls[i].currentBlock
    /\ polls' = [polls EXCEPT ![i] = [pc |-> "ok", fromBlock |-> polls[i].fromBlock,
                                      currentBlock |-> polls[i].currentBlock]]
    /\ UNCHANGED <<log, isActive, intervalId>>
    /\ UNCHANGED <<backendVars, ledgerVars, mapVars>>

\* getBlockNumber or getLogs of poll i throws: the error is logged.
PollThrows(i) ==
    /\ polls[i].pc \in {"getBlockNumber", "getLogs"}
    /\ polls' = [polls EXCEPT ![i] = [pc |-> "failed"]]
    /\ UNCHANGED <<log, lastProcessedBlockRef, isActive, intervalId, delivered>>
    /\ UNCHANGED <<backendVars, ledgerVars, mapVars>>

\* The cleanup of the effect.
Cleanup ==
    /\ isActive
    /\ isActive' = FALSE
    /\ intervalId' = FALSE
    /\ UNCHANGED <<log, lastProcessedBlockRef, polls, delivered>>
    /\ UNCHANGED <<backendVars, ledgerVars, mapVars>>

NextPoller ==
    \/ LedgerAppend
    \/ IntervalTick
    \/ \E i \in DOMAIN polls : GetBlockNumberOk(i)
    \/ \E i \in DOMAIN polls : GetLogsOk(i)
    \/ \E i \in DOMAIN polls : PollThrows(i)
    \/ Cleanup

PollerSpec == Init /\ [][NextPoller]_vars

\* ------------------------------------------------- frontend map
\* pixelKey: the text `${px},${py}`, as the pair of its numbers.
PixelKey(px, py) == <<px, py>>

\* The PixelPlaced event of log position p as the map is handed it.
EventAt(p) == [x |-> XOf(log[p].key), y |-> YOf(log[p].key), color |-> log[p].color]

\* Map.set and Map.delete.
MapSet(m, k, v) == [j \in DOMAIN m \cup {k} |-> IF j = k THEN v ELSE m[j]]
MapDelete(m, k) == [j \in DOMAIN m \ {k} |-> m[j]]

\* updateMarker(px, py, color) on the markers ms: without a map nothing
\* happens; an existing marker is restyled, a missing one is created.
UpdateMarker(ms, ready, px, py, color) ==
    IF ~ready THEN ms ELSE MapSet(ms, PixelKey(px, py), color)

\* removeMarker(pixelKey) on the markers ms.
RemoveMarker(ms, ready, pixelKey) ==
    IF pixelKey \in DOMAIN ms /\ ready THEN MapDelete(ms, pixelKey) ELSE ms

\* updateMarker for every entry of the pixel data pd.
MarkAll(ms, ready, pd) ==
    IF ~ready THEN ms
    ELSE [k \in DOMAIN ms \cup DOMAIN pd |-> IF k \in DOMAIN pd THEN pd[k] ELSE ms[k]]

\* Mutant: initializeMap creates no markers for the pixels already loaded.
NoMarkersAtInit(ms, pd) == ms

\* The markers after initializeMap: one for every pixel already loaded.
MarkersAtInit(ms, pd) == IF pd # EmptyMap THEN MarkAll(ms, TRUE, pd) ELSE ms

\* pixelDataRef after the loop over the pixels of the dump.
RECURSIVE Populate(_, _)
Populate(pd, pixels) ==
    IF pixels = <<>> THEN pd
    ELSE Populate(MapSet(pd, PixelKey(Head(pixels).x, Head(pixels).y),
                         Head(pixels).color),
                  Tail(pixels))

\* checkBackendHealth answers: the backend is available and fetchAllPixels
\* is called, or it is not and the load ends.
HealthChecked ==
    /\ load = "health"
    /\ \E isBackendAvailable \in BOOLEAN :
           load' = IF isBackendAvailable THEN "fetching" ELSE "unavailable"
    /\ UNCHANGED <<pixelDataRef, markersRef, placedPixelCount, mapReadyRef, handled>>
    /\ UNCHANGED <<log, backendVars, ledgerVars, pollerVars>>

\* fetchAllPixels returns the dump: the pixel data are populated, the count
\* is set and, if the map is ready, the markers are created.
LoadFromBackend ==
    /\ load = "fetching"
    /\ LET pixels == FetchAllPixels
       IN /\ pixelDataRef' = Populate(pixelDataRef, pixels)
          /\ placedPixelCount' = Len(pixels)
          /\ markersRef' = MarkAll(markersRef, mapReadyRef, pixelDataRef')
    /\ load' = "done"
    /\ UNCHANGED <<mapReadyRef, handled>>
    /\ UNCHANGED <<log, backendVars, ledgerVars, pollerVars>>

\* fetchAllPixels throws: the error is logged.
LoadThrows ==
    /\ load = "fetching"
    /\ load' = "failed"
    /\ UNCHANGED <<pixelDataRef, markersRef, placedPixelCount, mapReadyRef, handled>>
    /\ UNCHANGED <<log, backendVars, ledgerVars, pollerVars>>

\* initializeMap(map).
InitializeMap ==
    /\ ~mapReadyRef
    /\ mapReadyRef' = TRUE
    /\ markersRef' = MarkersAtInit(markersRef, pixelDataRef)
    /\ UNCHANGED <<pixelDataRef, placedPixelCount, load, handled>>
    /\ UNCHANGED <<log, backendVars, ledgerVars, pollerVars>>

\* handlePixelPlaced(event) for the entry of log position p: events arrive
\* in the order of the log, and not every entry arrives.
HandlePixelPlaced(p) ==
    /\ \A i \in DOMAIN handled : handled[i].pos < p
    /\ LET event == EventAt(p)
           px == event.x
           py == event.y
           color == event.color
           pixelKey == PixelKey(px, py)
       IN /\ IF color = 0
             THEN /\ pixelDataRef' = MapDelete(pixelDataRef, pixelKey)
                  /\ markersRef' = RemoveMarker(markersRef, mapReadyRef, pixelKey)
             ELSE /\ pixelDataRef' = MapSet(pixelDataRef, pixelKey, color)
                  /\ markersRef' = UpdateMarker(markersRef, mapReadyRef, px, py, color)
          /\ placedPixelCount' = Cardinality(DOMAIN pixelDataRef')
    /\ handled' = Append(handled, [pos |-> p, load |-> load])
    /\ UNCHANGED <<mapReadyRef, load>>
    /\ UNCHANGED <<log, backendVars, ledgerVars, pollerVars>>

\* ------------------------------------------------- faults
\* The process ingesting a log with malformed entries while snapshot writes
\* may fail.
NextFault ==
    \/ LedgerAppend
    \/ LedgerAppendMalformed
    \/ Start
    \/ \E i \in DOMAIN chunks : ChunkOk(i)
    \/ BackfillFinish
    \/ PollIssue
    \/ PollOk
    \/ SaveSnapshot
    \/ SnapshotWriteFail
    \/ ProcessExit
    \/ \E c \in Conns : Connect(c)

FaultSpec == Init /\ [][NextFault]_vars

\* ------------------------------------------------- dump requests
\* The query object of a request without parameters.
EmptyQuery == [n \in {} |-> <<>>]

\* Query objects of GET /api/pixels: limits and offsets at and around their
\* bounds, and texts that are not integer numerals.
PixelQueries ==
    {EmptyQuery}
    \cup {[limit |-> l] : l \in {Decimal(0), Decimal(1), Decimal(2),
                                 Decimal(MaxLimit), Decimal(MaxLimit + 1),
                                 <<"-", "1">>, <<"1", ".", "5">>,
                                 <<"1", ".", "0">>, <<"a">>, <<>>}}
    \cup {[offset |-> o] : o \in {Decimal(0), Decimal(1), Decimal(MaxOffset),
                                  Decimal(MaxOffset + 1), <<"x">>}}
    \cup {[limit |-> l, offset |-> o] :
              l \in {Decimal(0), Decimal(1)}, o \in {Decimal(0), Decimal(1), Decimal(2)}}

\* The binary dump is requested.
BinaryRequest ==
    /\ up
    /\ http' = [req |-> <<"binary">>, resp |-> PixelsBinary]
    /\ UNCHANGED <<log, up, boots, initDone, disk, stream, commits, push>>
    /\ UNCHANGED ingestVars
    /\ UNCHANGED subVars
    /\ UNCHANGED <<dirty, saveFails, debounce>>
    /\ UNCHANGED ledgerVars
    /\ UNCHANGED frontendVars

\* The descriptive dump is requested, whole or one page of it, with one of
\* the query objects qs.
PixelsRequest(qs) ==
    /\ up
    /\ \E q \in qs :
           http' = [req |-> <<"pixels", q>>, resp |-> Pixels(q)]
    /\ UNCHANGED <<log, up, boots, initDone, disk, stream, commits, push>>
    /\ UNCHANGED ingestVars
    /\ UNCHANGED subVars
    /\ UNCHANGED <<dirty, saveFails, debounce>>
    /\ UNCHANGED ledgerVars
    /\ UNCHANGED frontendVars

\* GET /health (uptime and memory use are left out).
Health ==
    LET stats == GetStats
    IN [status |-> IF stats.isWatching THEN "healthy" ELSE "degraded",
        stats |-> stats]

HealthRequest ==
    /\ up
    /\ http' = [req |-> <<"health">>, resp |-> Health]
    /\ UNCHANGED <<log, up, boots, initDone, disk, stream, commits, push>>
    /\ UNCHANGED ingestVars
    /\ UNCHANGED subVars
    /\ UNCHANGED <<dirty, saveFails, debounce>>
    /\ UNCHANGED ledgerVars
    /\ UNCHANGED frontendVars

\* GET /api/stats
StatsRequest ==
    /\ up
    /\ http' = [req |-> <<"stats">>, resp |-> [success |-> TRUE, stats |-> GetStats]]
    /\ UNCHANGED <<log, up, boots, initDone, disk, stream, commits, push>>
    /\ UNCHANGED ingestVars
    /\ UNCHANGED subVars
    /\ UNCHANGED <<dirty, saveFails, debounce>>
    /\ UNCHANGED ledgerVars
    /\ UNCHANGED frontendVars

\* Route parameters of the point lookups and region requests that are made
\* while the process ingests.
PointParams == {Decimal(0), Decimal(1), Decimal(2), <<"-", "1">>, <<"x">>}
ReadQueries == {EmptyQuery, [limit |-> Decimal(1)], [limit |-> <<"x">>]}
ReadRegions ==
    {<<Decimal(0), Decimal(0), Decimal(2), Decimal(1)>>,
     <<Decimal(1), Decimal(0), Decimal(2), Decimal(2)>>,
     <<Decimal(0), Decimal(0), Decimal(0), Decimal(1)>>}

\* Mutant: a lookup of a coordinate that holds no pixel stores an empty
\* pixel for it in the map.
PointRequestStoring ==
    /\ up
    /\ \E xs \in PointParams, ys \in {Decimal(0)} :
           LET x == ParseInt(xs)
               y == ParseInt(ys)
               k == Key(x.n, y.n)
           IN /\ http' = [req |-> <<"pixel", xs, ys>>, resp |-> PointLookup(xs, ys)]
              /\ cache' = IF IsValidCoordinate(x) /\ IsValidCoordinate(y)
                             /\ k \notin DOMAIN cache
                          THEN [j \in DOMAIN cache \cup {k} |->
                                   IF j = k THEN [key |-> k, color |-> 0, pos |-> 0]
                                   ELSE cache[j]]
                          ELSE cache
    /\ UNCHANGED <<log, up, boots, initDone, disk, stream, commits, push>>
    /\ UNCHANGED <<checkpoint, syncing, bfStart, bfHead, chunks, watching,
                   pollRange, applied, loadedCkpt, requeried>>
    /\ UNCHANGED subVars
    /\ UNCHANGED <<dirty, saveFails, debounce>>
    /\ UNCHANGED ledgerVars
    /\ UNCHANGED frontendVars

\* A point lookup is answered.
PointRequest ==
    /\ up
    /\ \E xs \in PointParams, ys \in {Decimal(0)} :
           http' = [req |-> <<"pixel", xs, ys>>, resp |-> PointLookup(xs, ys)]
    /\ UNCHANGED <<log, up, boots, initDone, disk, stream, commits, push>>
    /\ UNCHANGED ingestVars
    /\ UNCHANGED subVars
    /\ UNCHANGED <<dirty, saveFails, debounce>>
    /\ UNCHANGED ledgerVars
    /\ UNCHANGED frontendVars

\* A region request is answered while the process ingests.
RegionRead ==
    /\ up
    /\ \E r \in ReadRegions :
           http' = [req |-> <<"region">> \o r, resp |-> Region(r[1], r[2], r[3], r[4])]
    /\ UNCHANGED <<log, up, boots, initDone, disk, stream, commits, push>>
    /\ UNCHANGED ingestVars
    /\ UNCHANGED subVars
    /\ UNCHANGED <<dirty, saveFails, debounce>>
    /\ UNCHANGED ledgerVars
    /\ UNCHANGED frontendVars

\* The response has been sent: the exchange is over.
ResponseSent ==
    /\ http # NoRequest
    /\ http' = NoRequest
    /\ UNCHANGED <<log, up, boots, initDone, disk, stream, commits, push>>
    /\ UNCHANGED ingestVars
    /\ UNCHANGED subVars
    /\ UNCHANGED <<dirty, saveFails, debounce>>
    /\ UNCHANGED ledgerVars
    /\ UNCHANGED frontendVars

\* The process ingesting, serving stream connections and answering reads.
\* A handler runs to its response without yielding, so no other step of
\* the process falls between a request and its response.
NextRead ==
    \/ http = NoRequest /\ LedgerAppend
    \/ http = NoRequest /\ Start
    \/ http = NoRequest /\ \E i \in DOMAIN chunks : ChunkOk(i)
    \/ http = NoRequest /\ BackfillFinish
    \/ http = NoRequest /\ PollIssue
    \/ http = NoRequest /\ PollOk
    \/ http = NoRequest /\ \E c \in Conns : Connect(c)
    \/ http = NoRequest /\ \E c \in Conns : Disconnect(c)
    \/ HealthRequest
    \/ StatsRequest
    \/ PixelsRequest(ReadQueries)
    \/ BinaryRequest
    \/ PointRequest
    \/ RegionRead
    \/ ResponseSent

ReadSpec == Init /\ [][NextRead]_vars

\* Pixels whose coordinates and colours fill different bytes of a record:
\* (0,0), (1,0), (300,0), (0,1) and (2,3); colours 0, 1 and 0x7F0000.
DumpKeys == {Key(0, 0), Key(1, 0), Key(300, 0), Key(0, 1), Key(2, 3)}
DumpColors == {0, 1, 8323072}

DumpLogs ==
    UNION {[1..n -> [key : DumpKeys, color : DumpColors]] : n \in 0..MaxRegionLog}

\* The process after it has ingested the log l, with no request answered yet.
AfterIngesting(l) ==
    /\ log = l
    /\ up = TRUE
    /\ boots = 1
    /\ initDone = InitializeSteps
    /\ cache = ApplyRange(EmptyCache, 1, Len(log)).cache
    /\ checkpoint = Len(log)
    /\ disk = NoSnapshot
    /\ syncing = FALSE
    /\ bfStart = Origin
    /\ bfHead = Len(log)
    /\ chunks = [i \in 1..NumChunks(Origin, Len(log)) |->
                     [st |-> "done", tries |-> 0]]
    /\ watching = TRUE
    /\ pollRange = NoPoll
    /\ callbacks = {}
    /\ timers = {}
    /\ conn = [c \in Conns |-> "new"]
    /\ stream = [c \in Conns |-> <<>>]
    /\ slow = {}
    /\ push = NoPush
    /\ http = NoRequest
    /\ commits = ApplyRange(EmptyCache, 1, Len(log)).com
    /\ subAt = [c \in Conns |-> 0]
    /\ applied = 1..Len(log)
    /\ loadedCkpt = Origin
    /\ requeried = FALSE
    /\ dirty = FALSE
    /\ debounce = Idle
    /\ saveFails = <<>>
    /\ now = StartTime
    /\ canvas = EmptyCanvas
    /\ lastPlaced = [u \in Users |-> 0]
    /\ premiumAccess = [u \in Users |-> 0]
    /\ tx = NoCall
    /\ Mounted

InitDump == \E l \in DumpLogs : AfterIngesting(l)

NextDump ==
    \/ BinaryRequest
    \/ PixelsRequest(PixelQueries)

DumpSpec == InitDump /\ [][NextDump]_vars

\* ------------------------------------------------- frontend map runs
\* The logs that the backend has ingested when the page is mounted.
MapLogs ==
    UNION {[1..n -> Keys] : n \in 0..(MaxHead - 1)}

InitMap ==
    \E ks \in MapLogs :
        AfterIngesting([p \in DOMAIN ks |-> [key |-> ks[p], color |-> ColorAt(p)]])

NextMap ==
    \/ LedgerAppend
    \/ HealthChecked
    \/ LoadFromBackend
    \/ LoadThrows
    \/ InitializeMap
    \/ \E p \in DOMAIN log : HandlePixelPlaced(p)

MapSpec == InitMap /\ [][NextMap]_vars

C13_NoEventLost ==
    /\ [](\A i, j \in DOMAIN commits : commits[i].pos = commits[j].pos => i = j)
    /\ []<>(up => \A p \in (bfHead + 1)..CurrentHead : p \in applied)

\* C13 witness: an entry appended after the process started has been applied
\* from a poll and has changed the Cache, while the push subscription has
\* not delivered it yet and will deliver it a second time.
C13_Witness ==
    /\ up /\ push.st = "on"
    /\ \E p \in applied : p > bfHead /\ push.next <= p /\ checkpoint >= p
    /\ \E i \in DOMAIN commits : commits[i].pos >= push.next

\* A range query is out or has returned: a chunk exists or a poll is active.
Querying == chunks # <<>> \/ syncing \/ pollRange.active

\* C14: startup ordering.  No Backfill range query and no Live Tail runs
\* before the storage has been loaded; the load puts the snapshot's records
\* and checkpoint in place, or, with no snapshot, an empty Cache and the
\* deployment origin; and Backfill starts from what was loaded.
C14_LoadBeforeIngest ==
    /\ []((up /\ (Querying \/ watching)) => "load" \in initDone)
    /\ [][("load" \notin initDone /\ "load" \in initDone') =>
             /\ ~Querying /\ ~watching
             /\ (disk.exists => cache' = disk.records
                                  /\ checkpoint' = disk.checkpoint)
             /\ (~disk.exists => cache' = EmptyCache /\ checkpoint' = Origin)]_vars
    /\ [][("sync" \notin initDone /\ "sync" \in initDone') =>
             bfStart' = loadedCkpt']_vars

\* C14 witness: a restart has loaded a snapshot with records and only then
\* started a Backfill over a non-empty range, and Live Tail after it.
C14_Witness ==
    /\ up /\ boots = 2 /\ initDone = InitializeSteps
    /\ disk.exists /\ loadedCkpt = disk.checkpoint /\ loadedCkpt >= 1
    /\ DOMAIN disk.records # {}
    /\ syncing /\ chunks # <<>> /\ watching

\* C15: orderly shutdown.  The step that ends a process that has applied
\* records stops Live Tail and leaves on disk a snapshot of every record
\* applied so far and of the current checkpoint,
\* and while the process is down no Cache, snapshot or stream changes.
C15_ShutdownFlushes ==
    /\ [][(up /\ ~up' /\ DOMAIN cache # {}) =>
             (~watching' /\ disk' = SnapshotOf(cache, checkpoint))]_vars
    /\ [][(~up /\ ~up') =>
             (cache' = cache /\ disk' = disk /\ stream' = stream
                  /\ checkpoint' = checkpoint)]_vars

Numeral(n) == <<Digits[n + 1]>>

\* C17: records are never deleted.  Within a run the set of keys in the
\* Cache only grows; each record carries the colour of its log entry as
\* received, colour 0 included; and a point lookup answers 200 with the
\* record for every written coordinate, cleared or not, and 404 for a
\* coordinate that was never written.
C17_NeverDeleted ==
    /\ [][SameBoot => /\ DOMAIN cache \subseteq DOMAIN cache'
                      /\ Cardinality(DOMAIN cache') >= Cardinality(DOMAIN cache)]_vars
    /\ [](up => \A k \in DOMAIN cache :
                    /\ cache[k].key = k /\ log[cache[k].pos].key = k
                    /\ cache[k].color = log[cache[k].pos].color)
    /\ [](up => \A x \in 0..(NumKeys + 1) :
                    LET r == PointLookup(Numeral(x), Numeral(0))
                    IN IF x \in DOMAIN cache
                       THEN r.status = 200 /\ r.pixel = PixelData(cache[x])
                       ELSE r.status = 404)

\* C17 witness: one coordinate holds a record of colour 0, whose lookup
\* answers 200 with colour 0, and another was never written and answers 404.
C17_Witness ==
    /\ up
    /\ \E k \in DOMAIN cache :
           /\ cache[k].color = 0
           /\ PointLookup(Numeral(k), Numeral(0)) =
                  [status |-> 200, pixel |-> [x |-> k, color |-> 0]]
    /\ \E x \in Keys :
           x \notin DOMAIN cache /\ PointLookup(Numeral(x), Numeral(0)).status = 404

\* The parameters of the last region request, as parseInt reads them.
ReqStartX == ParseInt(http.req[1])
ReqStartY == ParseInt(http.req[2])
ReqWidth == ParseInt(http.req[3])
ReqHeight == ParseInt(http.req[4])

\* The limits the region endpoint is said to accept, on the numbers read.
ReqWithinLimits ==
    /\ ReqStartX.ok /\ ReqStartX.n \in 0..(RES - 1)
    /\ ReqStartY.ok /\ ReqStartY.n \in 0..(RES - 1)
    /\ ReqWidth.ok /\ ReqWidth.n \in 1..MaxDimension
    /\ ReqHeight.ok /\ ReqHeight.n \in 1..MaxDimension
    /\ ReqWidth.n * ReqHeight.n <= MaxRegionArea

\* The records of the Cache whose key stands for the coordinate (x, y).
RecordsAt(x, y) == {cache[k] : k \in {j \in DOMAIN cache : j = x + (j \div RES) * RES
                                                        /\ j \div RES = y}}

IsIntegerNumeral(s) ==
    LET t == SkipSpace(s)
        u == IF t # <<>> /\ Head(t) \in {"+", "-"} THEN Tail(t) ELSE t
    IN u # <<>> /\ \A i \in DOMAIN u : IsDigit(u[i])

\* C19: region requests are bounded.  A request is answered from the Cache
\* exactly when its four parameters are integers, the start coordinates in
\* 0 .. RES - 1, width and height in 1 .. 1000, and width * height at most
\* 10,000; every other request is answered 400 without a lookup.
C19_RegionBounded ==
    http # NoRequest =>
        LET valid == /\ \A i \in 1..4 : IsIntegerNumeral(http.req[i])
                     /\ ReqWithinLimits
        IN /\ (http.resp.status = 200 <=> valid)
           /\ (~valid => http.resp.status = 400 /\ http.resp.lookups = {})

\* C20: all coordinates are in bounds before lookup.  Every coordinate that
\* an answered region request looks up lies in 0 .. RES - 1; a rectangle
\* that extends past the edge of the canvas is answered 400.
C20_LookupsInBounds ==
    http # NoRequest =>
        /\ \A c \in http.resp.lookups :
               c[1] \in 0..(RES - 1) /\ c[2] \in 0..(RES - 1)
        /\ ((/\ ReqWithinLimits
             /\ (ReqStartX.n + ReqWidth.n > RES \/ ReqStartY.n + ReqHeight.n > RES))
                => http.resp.status = 400)

\* The (x, y, colour) triples of a sequence of pixels.
TriplesOf(pixels) == {<<pixels[i].x, pixels[i].y, pixels[i].color>> : i \in DOMAIN pixels}

\* C21: dump equivalence.  In every Cache state the records the client
\* decodes from the binary dump and the pixels of the descriptive dump are
\* the same set of (x, y, colour) triples, one per record of the Cache; the
\* binary body has 12 bytes per record and the X-Pixel-Count header is the
\* numeral of the number of records.
C21_DumpEquivalence ==
    LET bin == PixelsBinary
        json == Pixels(EmptyQuery)
    IN /\ json.status = 200 /\ bin.status = 200
       /\ TriplesOf(FetchAllPixelsBinary) = TriplesOf(json.pixels)
       /\ Len(FetchAllPixelsBinary) = Len(json.pixels)
       /\ Cardinality(TriplesOf(json.pixels)) = Cardinality(DOMAIN cache)
       /\ Len(bin.body) = RecordBytes * Cardinality(DOMAIN cache)
       /\ bin.pixelCount = Decimal(Cardinality(DOMAIN cache))
       /\ (http # NoRequest /\ http.req = <<"binary">> => http.resp = bin)

\* The binary dump was requested of a Cache with two pixels, one of them off
\* the first row and one of them cleared.
C21_Witness ==
    /\ http # NoRequest /\ http.req = <<"binary">>
    /\ Len(http.resp.body) = 2 * RecordBytes
    /\ \E t \in TriplesOf(FetchAllPixelsBinary) : t[2] > 0 /\ t[3] > 1
    /\ \E t \in TriplesOf(FetchAllPixelsBinary) : t[1] > 255 /\ t[3] = 0

\* C22: reads are pure.  A step that answers a read (health, stats, full
\* dump, binary dump, point lookup, region) leaves the Cache, the checkpoint,
\* the subscriber set, the scheduled snapshot and the snapshot artifact as
\* they are; and in a running process the checkpoint changes only in a step
\* of the ingestion path, the end of Backfill or a batch of Live Tail.
C22_ReadsArePure ==
    [][/\ (http' # http
              => UNCHANGED <<cache, checkpoint, callbacks, timers, conn, stream,
                             dirty, disk, log, syncing, watching, chunks>>)
       /\ (checkpoint' # checkpoint /\ up /\ up'
              => BackfillFinish \/ PollOk \/ PushDeliver)]_vars

\* A point lookup found no pixel at a coordinate while the Cache held another
\* pixel, the checkpoint had advanced and a subscriber was registered.
C22_Witness ==
    /\ http # NoRequest /\ http.req[1] = "pixel" /\ http.resp.status = 404
    /\ DOMAIN cache # {} /\ checkpoint > Origin /\ callbacks # {}

\* C23: a failed snapshot write does not affect ingestion.  The step in
\* which a write fails leaves the process running and the Cache, the
\* checkpoint, the artifact, Backfill, Live Tail and the streams as they
\* were, and leaves the snapshot scheduled; so whenever a write has failed
\* and the artifact is behind the Cache or the checkpoint, a snapshot is
\* scheduled and the next debounce cycle writes it.
C23_WriteFailureHarmless ==
    /\ [][Len(saveFails') > Len(saveFails)
             => /\ up'
                /\ UNCHANGED <<cache, checkpoint, disk, log, commits, stream>>
                /\ UNCHANGED <<syncing, watching, chunks, pollRange, callbacks>>
                /\ dirty']_vars
    /\ [](up /\ saveFails # <<>> /\ disk # SnapshotOf(cache, checkpoint) => dirty)
    /\ [](up /\ dirty => ENABLED SaveSnapshot)

\* After a failed write another entry was put and published to a subscriber,
\* and a later write stored it.
C23_Witness ==
    /\ up /\ saveFails # <<>>
    /\ disk = SnapshotOf(cache, checkpoint)
    /\ \E n \in (saveFails[1] + 1)..Len(commits), c \in callbacks :
           /\ cache[commits[n].key] = commits[n]
           /\ \E i \in DOMAIN stream[c] : stream[c][i] = PixelEvent(commits[n])

\* The positions of the log whose entry is malformed.
MalformedAt == {p \in 1..Len(log) : ~WellFormed(log[p])}

RateLimitExceeded == "Megaplace: rate limit exceeded"

\* The last call was a placement that reverted for the rate limit.
RateLimitRevert ==
    /\ tx.fn \in {"placePixel", "placePixelBatch"}
    /\ ~tx.ok
    /\ tx.reason = RateLimitExceeded

\* The pixels that user u has placed.
PlacedBy(u) == Cardinality({i \in DOMAIN log : log[i].user = u})

\* The allowance and the cooldown that the tests and the shared constants
\* of the application give.
DEFAULT_COOLDOWN_PIXELS == 15
DEFAULT_COOLDOWN_SECONDS == 5

\* C25: ledger rate limit.  A placePixel of a user reverts for the rate
\* limit only once the user has placed 15 pixels, and only until 5 seconds
\* have passed since the cooldown started.
C25_RateLimit ==
    RateLimitRevert /\ tx.fn = "placePixel"
        => /\ PlacedBy(tx.sender) >= DEFAULT_COOLDOWN_PIXELS
           /\ tx.currentTime < tx.lastTime + DEFAULT_COOLDOWN_SECONDS

LastPlacedAt(k) ==
    LET S == {i \in DOMAIN log : log[i].key = k}
    IN IF S = {} THEN 0 ELSE CHOOSE i \in S : \A j \in S : j <= i

\* C27: the ledger stores colour 0 as-is.  A placement of colour 0 emits
\* PixelPlaced with colour 0 and leaves colour 0 on the canvas, with the
\* placer and the time of the placement.
C27_ColorZeroAsIs ==
    /\ \A i \in DOMAIN log : log[i].arg = 0 => log[i].color = 0
    /\ \A k \in LedgerCells :
           LastPlacedAt(k) # 0 /\ log[LastPlacedAt(k)].arg = 0
               => /\ canvas[k].color = 0
                  /\ canvas[k].placedBy # 0
                  /\ canvas[k].timestamp # 0

\* The colour last placed at canvas index k, 0 for a pixel never placed or
\* erased.
LastColorAt(k) == IF LastPlacedAt(k) = 0 THEN 0 ELSE log[LastPlacedAt(k)].arg

\* C28: the result of an accepted getRegion(startX, startY, w, h) has w*h
\* colours, and index dy*w+dx holds the colour last placed at
\* (startX+dx, startY+dy), 0 for a pixel never placed or erased.
C28_RegionResult ==
    tx.fn = "getRegion" /\ tx.ok
        => LET startPx == tx.args[1]
               startPy == tx.args[2]
               width == tx.args[3]
               height == tx.args[4]
           IN /\ Len(tx.ret) = width * height
              /\ \A dx \in 0..(width - 1), dy \in 0..(height - 1) :
                     tx.ret[dy * width + dx + 1]
                         = LastColorAt(Key(startPx + dx, startPy + dy))

\* The largest area of a region that the tests and the shared constants of
\* the application give.
MAX_REGION_SIZE == 10000

\* C29: getRegion reverts when a start coordinate is not below CANVAS_RES,
\* when the region ends past CANVAS_RES, when width or height is 0 and when
\* width*height exceeds 10000, and is accepted otherwise.
C29_RegionRejections ==
    tx.fn = "getRegion"
        => LET startPx == tx.args[1]
               startPy == tx.args[2]
               width == tx.args[3]
               height == tx.args[4]
           IN tx.ok <=> /\ startPx < RES /\ startPy < RES
                        /\ startPx + width <= RES /\ startPy + height <= RES
                        /\ width > 0 /\ height > 0
                        /\ width * height <= MAX_REGION_SIZE

\* s is the beginning of t.
IsPrefix(s, t) == Len(s) <= Len(t) /\ \A i \in DOMAIN s : t[i] = s[i]

\* C30: push-stream event order.  Nothing is written to a connection that
\* is not open; the first event of an open connection is the connected
\* event and every later one is a pixel or a heartbeat; and what was
\* written to an open connection stays in front of what is written later.
C30_ConnectedFirst ==
    /\ [](\A c \in Conns :
              /\ conn[c] # "open" => stream[c] = <<>> /\ c \notin callbacks \cup timers
              /\ conn[c] = "open"
                     => /\ stream[c] # <<>>
                        /\ stream[c][1] = ConnectedEvent
                        /\ \A i \in 2..Len(stream[c]) :
                               stream[c][i].type \in {"pixel", "heartbeat"})
    /\ [][\A c \in Conns :
              conn[c] = "open" /\ conn'[c] = "open" => IsPrefix(stream[c], stream'[c])]_vars

\* An open connection was written the connected event, then a pixel and a
\* heartbeat in both orders on two connections.
C30_Witness ==
    \E c, d \in Conns :
        /\ conn[c] = "open" /\ conn[d] = "open"
        /\ Len(stream[c]) >= 3 /\ Len(stream[d]) >= 3
        /\ stream[c][1] = ConnectedEvent /\ stream[d][1] = ConnectedEvent
        /\ stream[c][2].type = "pixel" /\ stream[c][3] = HeartbeatEvent
        /\ stream[d][2] = HeartbeatEvent /\ stream[d][3].type = "pixel"

\* The connections that are open.
OpenConns == {c \in Conns : conn[c] = "open"}

\* C31: subscriber teardown.  The step that closes a connection removes
\* its callback and its heartbeat timer and nothing else from the
\* registries; a closed connection has neither, no heartbeat can fire for
\* it and nothing is written to it; and the registered subscribers are
\* the open connections, so that their number is back to its value before
\* the connection.
C31_SubscriberTeardown ==
    /\ [][\A c \in Conns :
              conn[c] = "open" /\ conn'[c] = "closed" /\ up'
                  => /\ callbacks' = callbacks \ {c}
                     /\ timers' = timers \ {c}
                     /\ Cardinality(callbacks') = Cardinality(callbacks) - 1]_vars
    /\ [](\A c \in Conns :
              conn[c] = "closed"
                  => /\ c \notin callbacks /\ c \notin timers
                     /\ ~ENABLED Heartbeat(c)
                     /\ stream[c] = <<>>)
    /\ [][\A c \in Conns : conn[c] = "closed" => stream'[c] = <<>>]_vars
    /\ [](callbacks = OpenConns /\ timers = OpenConns)

\* The first connection has closed while the process keeps running, and a
\* pixel and a heartbeat were written to the second one, the only
\* subscriber left.
C31_Witness ==
    /\ up
    /\ conn[1] = "closed" /\ conn[2] = "open"
    /\ callbacks = {2} /\ timers = {2}
    /\ \E i, j \in DOMAIN stream[2] :
           stream[2][i].type = "pixel" /\ stream[2][j] = HeartbeatEvent

\* C32: debounced snapshot liveness.  A scheduled snapshot is never left
\* waiting past the quiet period or past the staleness ceiling; with no
\* snapshot scheduled the artifact holds the Cache and the checkpoint; and a
\* scheduled snapshot is eventually written.
C32_SnapshotEventually ==
    /\ [](dirty => debounce.quiet <= QuietTicks /\ debounce.stale <= MaxStaleTicks)
    /\ [](up /\ commits # <<>> /\ ~dirty => disk = SnapshotOf(cache, checkpoint))
    /\ (dirty ~> ~dirty)

\* Three puts changed the Cache with less than the quiet period between
\* them, and the snapshot was written at the staleness ceiling, before any
\* quiet period: the artifact holds all three.
C32_Witness ==
    /\ up /\ ~dirty
    /\ Len(commits) = 3
    /\ debounce.stale = MaxStaleTicks /\ debounce.quiet < QuietTicks
    /\ disk = SnapshotOf(cache, checkpoint)

\* ------------------------------------------------- frontend poller claims
\* The blocks covered by a getLogs call that has succeeded.
Fetched ==
    UNION {polls[i].fromBlock..polls[i].currentBlock :
               i \in {j \in DOMAIN polls : polls[j].pc = "ok"}}

\* C33: the cursor of the frontend poller never decreases.
C33_CursorMonotonic ==
    [][lastProcessedBlockRef' >= lastProcessedBlockRef]_vars

\* C34: the frontend poller leaves no block gap.  Every block from the
\* first one fetched up to the cursor was covered by a getLogs call that
\* succeeded, and a poll that throws leaves the cursor unchanged.
C34_NoBlockGap ==
    \A b \in 1..lastProcessedBlockRef :
        (\E a \in Fetched : a <= b) => b \in Fetched

\* C35: every PixelPlaced log is passed to onPixelPlaced at most once.
C35_AtMostOnce ==
    \A i, j \in DOMAIN delivered : i # j => delivered[i] # delivered[j]

\* C36: after the cleanup of the effect the callback is not invoked and
\* the cursor is not modified.
C36_StopsOnCleanup ==
    [][~isActive =>
           delivered' = delivered /\ lastProcessedBlockRef' = lastProcessedBlockRef]_vars

\* ------------------------------------------------- frontend map claims
\* The load from the backend has ended, with or without pixels.
LoadSettled == load \in {"done", "failed", "unavailable"}

Shown(k) == IF k \in DOMAIN pixelDataRef THEN pixelDataRef[k] ELSE 0

\* The calls of handlePixelPlaced made before the load finished, for an
\* entry newer than the dump, with no later call for the same key.
LiveBeforeLoad ==
    {i \in DOMAIN handled :
        /\ handled[i].load \in {"health", "fetching"}
        /\ handled[i].pos > checkpoint
        /\ \A j \in DOMAIN handled :
               j > i => log[handled[j].pos].key # log[handled[i].pos].key}

\* C38: pixel state never regresses.  After the load, the colour shown for
\* the key of a live event that was handled before the load finished is
\* the colour of that event.
C38_NeverRegresses ==
    load = "done"
        => \A i \in LiveBeforeLoad :
               LET event == EventAt(handled[i].pos)
               IN Shown(PixelKey(event.x, event.y)) = event.color

\* C39: the frontend holds no colour-0 pixels.  After the load and after
\* every handlePixelPlaced no key of pixelDataRef maps to colour 0, and
\* placedPixelCount is the number of keys of pixelDataRef.
C39_NoColorZero ==
    load = "done" \/ handled # <<>>
        => /\ \A k \in DOMAIN pixelDataRef : pixelDataRef[k] # 0
           /\ placedPixelCount = Cardinality(DOMAIN pixelDataRef)

\* ------------------------------------------------- pagination
\* The last request was a page of the descriptive dump, and it was served.
PageServed ==
    /\ http # NoRequest
    /\ http.req[1] = "pixels"
    /\ http.resp.status = 200

\* The offset and the limit of the query object q of a served page.
OffsetOf(q) == IF "offset" \in DOMAIN q THEN ToNumber(q["offset"]).n ELSE 0
LimitOf(q) == IF "limit" \in DOMAIN q THEN ToNumber(q["limit"]).n ELSE NoLimit

\* A client that asks for pages of limit records from offset on, advancing
\* by the count returned while hasMore is true, for at most fuel pages: the
\* pixels received, and whether the last page said there are no more.
RECURSIVE Walk(_, _, _)
Walk(limit, offset, fuel) ==
    LET page == Pixels([limit |-> Decimal(limit), offset |-> Decimal(offset)])
    IN IF ~page.hasMore THEN [pixels |-> page.pixels, done |-> TRUE]
       ELSE IF fuel = 1 THEN [pixels |-> page.pixels, done |-> FALSE]
       ELSE LET rest == Walk(limit, offset + page.count, fuel - 1)
            IN [pixels |-> page.pixels \o rest.pixels, done |-> rest.done]

\* C40 as stated: a served page has hasMore exactly when records remain
\* beyond offset + count, and whenever hasMore is true count > 0.
C40_PaginationProgress ==
    PageServed
        => /\ http.resp.hasMore
                  <=> OffsetOf(http.req[2]) + http.resp.count < http.resp.total
           /\ http.resp.hasMore => http.resp.count > 0

\* C40, amended: a served page has hasMore exactly when records remain
\* beyond offset + count; whenever hasMore is true and the limit is not 0,
\* count > 0; and a client that walks the dump from offset 0 with a limit
\* of at least 1 ends, within one page per record and one more, with every
\* record received exactly once.
C40_ProgressWithLimit ==
    /\ PageServed
           => /\ http.resp.hasMore
                     <=> OffsetOf(http.req[2]) + http.resp.count < http.resp.total
              /\ http.resp.hasMore /\ LimitOf(http.req[2]) # 0 => http.resp.count > 0
    /\ \A limit \in 1..(Cardinality(DOMAIN cache) + 1) :
           LET walk == Walk(limit, 0, Cardinality(DOMAIN cache) + 1)
           IN walk.done /\ walk.pixels = GetPixelsArray(NoLimit, 0)

\* A page of one record out of two was served from offset 0: it says there
\* are more.
C40_Witness ==
    /\ PageServed
    /\ LimitOf(http.req[2]) = 1 /\ OffsetOf(http.req[2]) = 0
    /\ http.resp.total = 2
    /\ http.resp.count = 1 /\ http.resp.hasMore

====
